---- MODULE Spec2Model ----
(***************************************************************************)
(* A model of crate_interface: the three macro expansions (def_interface,  *)
(* impl_interface, call_interface), the names they synthesize, the guard   *)
(* constants, the weak-default overlay with its Self:: proxy rewriting,    *)
(* and the build (trait/impl check, link of weak and strong definitions,   *)
(* run of a call) that binds the three expansions into one program.        *)
(***************************************************************************)
EXTENDS Integers, Sequences, FiniteSets, TLC

VARIABLES
    workspace,  \* which set of crates is being built (one of Workspaces)
    defs,       \* set of def_interface expansions (trait, extern mod, callers)
    impls,      \* set of impl_interface expansions (rewritten impl blocks)
    callsite,   \* the expanded call of the binary crate: None or <<call>>
    phase,      \* "expand" | "built" | "linked" | "ran" | "failed"
    diag,       \* the build diagnostic: "" or the kind of error
    linked,     \* the units (def/impl expansions) the linker has taken so far
    symtab,     \* the linker's symbol table: symbol name -> chosen definition
    result,     \* the value the run of the call produced: None or <<value>>
    names,      \* name-synthesis runs: the inputs drawn and the names produced
    parser,     \* one macro's argument tokens and what parsing made of them
    expansion   \* one declaration, its configuration and its expansions so far

vars == <<workspace, defs, impls, callsite, phase, diag, linked, symtab, result, names, parser, expansion>>

-----------------------------------------------------------------------------
(* Option<T>: None is the empty sequence, Some(x) the one-element sequence. *)
None == <<>>
Some(x) == <<x>>
IsSome(o) == o # <<>>
Unwrap(o) == o[1]

(* Sequence helpers. *)
RECURSIVE SeqToSet(_)
SeqToSet(s) == IF s = <<>> THEN {} ELSE {Head(s)} \cup SeqToSet(Tail(s))

RECURSIVE Reverse(_)
Reverse(s) == IF s = <<>> THEN <<>> ELSE Append(Reverse(Tail(s)), Head(s))

-----------------------------------------------------------------------------
(* naming.rs                                                                *)

\* The plausible slip: the guard does not carry the trait's name.
alias_guard_name_const(trait_name) == "__MustNotAnAlias__"

\* format_ident!("__MustNotAnAlias__{}", trait_name)
alias_guard_name(trait_name) == "__MustNotAnAlias__" \o trait_name

\* The plausible slip: the guard does not carry the namespace.
namespace_guard_name_const(namespace) == "__NamespaceGuard__"

\* format_ident!("__NamespaceGuard__{}", namespace)
namespace_guard_name(namespace) == "__NamespaceGuard__" \o namespace

\* The plausible slip: the namespace is left out of the symbol.
extern_fn_name_no_ns(namespace, trait_name, fn_name) ==
    "__" \o trait_name \o "_" \o fn_name

\* format_ident!("__{}_{}_{}", ns, trait_name, fn_name) with a namespace,
\* format_ident!("__{}_{}", trait_name, fn_name) without one.
extern_fn_name(namespace, trait_name, fn_name) ==
    IF IsSome(namespace)
    THEN "__" \o Unwrap(namespace) \o "_" \o trait_name \o "_" \o fn_name
    ELSE "__" \o trait_name \o "_" \o fn_name

\* format_ident!("__{}_mod", trait_name)
extern_fn_mod_name(trait_name) == "__" \o trait_name \o "_mod"

\* The plausible slip: call_interface leaves the namespace out of the symbol.
lib_extern_fn_name_no_ns(namespace, trait_name, fn_name) ==
    "__" \o trait_name \o "_" \o fn_name

(* lib.rs keeps its own copies of the two functions call_interface uses.   *)
lib_extern_fn_name(namespace, trait_name, fn_name) ==
    IF IsSome(namespace)
    THEN "__" \o Unwrap(namespace) \o "_" \o trait_name \o "_" \o fn_name
    ELSE "__" \o trait_name \o "_" \o fn_name

lib_extern_fn_mod_name(trait_name) == "__" \o trait_name \o "_mod"

-----------------------------------------------------------------------------
(* Signatures (syn::Signature): ident, whether generic parameters are      *)
(* present, the inputs in order, the return type.  An input (syn::FnArg)   *)
(* is a receiver or a typed argument whose pattern is an identifier or     *)
(* some other pattern.                                                     *)
Typed(name, ty) == [kind |-> "Typed", pat |-> "Ident", name |-> name, ty |-> ty]
Sig(ident, inputs, output) ==
    [ident |-> ident, generics |-> FALSE, inputs |-> inputs, output |-> output]

Ok(v) == [ok |-> TRUE, val |-> v, err |-> ""]
Err(msg) == [ok |-> FALSE, val |-> <<>>, err |-> msg]

\* validator.rs: reject generic parameters, then the first receiver.
validate_fn_signature(sig) ==
    IF sig.generics
    THEN Err("generic parameters are not allowed in crate_interface")
    ELSE IF \E i \in 1..Len(sig.inputs) : sig.inputs[i].kind = "Receiver"
    THEN Err("methods with receiver (self) are not allowed in crate_interface")
    ELSE Ok(<<>>)

\* The plausible slip: the arguments are forwarded in reverse order.
RECURSIVE extract_caller_args_rev(_)
extract_caller_args_rev(sig) ==
    IF sig.inputs = <<>> THEN Ok(<<>>)
    ELSE LET arg == Head(sig.inputs)
             rest == extract_caller_args_rev([sig EXCEPT !.inputs = Tail(sig.inputs)])
         IN IF arg.kind = "Typed" /\ arg.pat # "Ident"
            THEN Err("unexpected pattern in function argument")
            ELSE IF ~rest.ok THEN rest
            ELSE IF arg.kind = "Typed" THEN Ok(Append(rest.val, arg.name))
            ELSE rest

\* naming.rs extract_caller_args: the identifiers of the typed arguments in
\* order; receivers are skipped; the first non-identifier pattern is an error.
RECURSIVE extract_caller_args(_)
extract_caller_args(sig) ==
    IF sig.inputs = <<>> THEN Ok(<<>>)
    ELSE LET arg == Head(sig.inputs)
             rest == extract_caller_args([sig EXCEPT !.inputs = Tail(sig.inputs)])
         IN IF arg.kind = "Typed" /\ arg.pat # "Ident"
            THEN Err("unexpected pattern in function argument")
            ELSE IF ~rest.ok THEN rest
            ELSE IF arg.kind = "Typed" THEN Ok(<<arg.name>> \o rest.val)
            ELSE rest

-----------------------------------------------------------------------------
(* Method bodies.  A node of the syntax tree has a kind k, a literal v,    *)
(* path segments segs and sub-nodes sub:                                   *)
(*   lit    an integer literal v                                           *)
(*   path   a path expression segs (one segment: a local name)             *)
(*   call   sub[1] applied to the arguments sub[2..]                       *)
(*   bin    the binary operation segs[1] of sub[1] and sub[2]              *)
(*   let    the statement `let segs[1] = sub[1];`                          *)
(*   block  the statements sub, the last one being the block's value       *)
Lit(n) == [k |-> "lit", v |-> n, segs |-> <<>>, sub |-> <<>>]
Path(segs) == [k |-> "path", v |-> 0, segs |-> segs, sub |-> <<>>]
Call(f, args) == [k |-> "call", v |-> 0, segs |-> <<>>, sub |-> <<f>> \o args]
Bin(op, l, r) == [k |-> "bin", v |-> 0, segs |-> <<op>>, sub |-> <<l, r>>]
Let(x, e) == [k |-> "let", v |-> 0, segs |-> <<x>>, sub |-> <<e>>]
Block(stmts) == [k |-> "block", v |-> 0, segs |-> <<>>, sub |-> stmts]

\* Put key |-> val into a map (HashMap::insert).
MapPut(m, key, val) ==
    [x \in (DOMAIN m) \cup {key} |-> IF x = key THEN val ELSE m[x]]

-----------------------------------------------------------------------------
(* def_interface.rs: rewrite_self_in_default_body and its SelfRefRewriter. *)
(* The rewriter rw holds trait_name, namespace, method_signatures and the  *)
(* generated_proxies map (method name -> proxy function).                  *)

\* The plausible slip: any path that starts with Self counts, and its last
\* segment is taken for the method.
is_self_method_path_any_length(expr) ==
    IF expr.k = "path" /\ Len(expr.segs) >= 2 /\ expr.segs[1] = "Self"
    THEN Some(expr.segs[Len(expr.segs)])
    ELSE None

\* A `Self::method_name` path: a path expression of exactly two segments
\* whose first is Self.
is_self_method_path(expr) ==
    IF expr.k = "path" /\ Len(expr.segs) = 2 /\ expr.segs[1] = "Self"
    THEN Some(expr.segs[2])
    ELSE None

proxy_name(method_name) == "__self_proxy_" \o method_name

\* The plausible slip: the proxy forwards to the symbol without the namespace.
ensure_proxy_fn_no_ns(rw, method_name) ==
    IF method_name \notin DOMAIN rw.method_signatures THEN None
    ELSE LET sig == rw.method_signatures[method_name]
             caller_args == extract_caller_args(sig)
         IN IF ~caller_args.ok THEN None
            ELSE Some([sig |-> [sig EXCEPT !.ident = proxy_name(method_name)],
                       mod |-> extern_fn_mod_name(rw.trait_name),
                       fn |-> extern_fn_name(None, rw.trait_name, method_name),
                       args |-> caller_args.val])

\* The proxy function for Self::method_name: None when the method is not a
\* method of the trait or its arguments cannot be extracted.  The proxy has
\* the method's signature under the proxy's name and forwards its arguments
\* to the extern function of the method.  generated_proxies is keyed by the
\* method name, so a method met again gets the proxy it already has.
ensure_proxy_fn(rw, method_name) ==
    IF method_name \notin DOMAIN rw.method_signatures THEN None
    ELSE LET sig == rw.method_signatures[method_name]
             caller_args == extract_caller_args(sig)
         IN IF ~caller_args.ok THEN None
            ELSE Some([sig |-> [sig EXCEPT !.ident = proxy_name(method_name)],
                       mod |-> extern_fn_mod_name(rw.trait_name),
                       fn |-> extern_fn_name(rw.namespace, rw.trait_name,
                                             method_name),
                       args |-> caller_args.val])

\* Replace the expression by the one-segment path of the proxy.
replace_with_proxy(rw, expr, method_name) ==
    IF IsSome(ensure_proxy_fn(rw, method_name))
    THEN Path(<<proxy_name(method_name)>>)
    ELSE expr

\* The visitor: the children first, then the node itself.
RECURSIVE visit_expr_mut(_, _)
visit_expr_mut(rw, expr) ==
    LET e1 == [expr EXCEPT !.sub =
                  [i \in 1..Len(expr.sub) |-> visit_expr_mut(rw, expr.sub[i])]]
        m == is_self_method_path(e1)
    IN IF IsSome(m) THEN replace_with_proxy(rw, e1, Unwrap(m)) ELSE e1

\* The keys of generated_proxies once the visitor has been over expr: the
\* methods met as Self::method for which a proxy could be generated.
RECURSIVE generated_proxies(_, _)
generated_proxies(rw, expr) ==
    LET m == is_self_method_path(expr)
    IN (IF IsSome(m) /\ IsSome(ensure_proxy_fn(rw, Unwrap(m)))
        THEN {Unwrap(m)} ELSE {})
       \cup UNION {generated_proxies(rw, expr.sub[i]) : i \in 1..Len(expr.sub)}

\* The keys in the order iter_order lists them (HashMap::into_values: the
\* order is the hasher's, not the program's).
KeysInOrder(keys, iter_order) == SelectSeq(iter_order, LAMBDA x : x \in keys)

\* The body of the weak definition: the proxy functions, then the rewritten
\* statements.
rewrite_self_in_default_body(default_body, trait_name, namespace, method_signatures, iter_order) ==
    LET rewriter == [trait_name |-> trait_name,
                     namespace |-> namespace,
                     method_signatures |-> method_signatures]
        keys == KeysInOrder(generated_proxies(rewriter, default_body), iter_order)
    IN [proxy_fns |-> [i \in 1..Len(keys) |->
                          Unwrap(ensure_proxy_fn(rewriter, keys[i]))],
        stmts |-> visit_expr_mut(rewriter, default_body).sub]

-----------------------------------------------------------------------------
(* Declarations handed to the attribute macros.                             *)
(* A trait (syn::ItemTrait): the module it is written in, vis, ident,      *)
(* whether it has generic parameters, and its items in order.  An item is  *)
(* a method (Fn: sig, default body or None) or an associated constant      *)
(* (Const: default value or None).                                         *)
TraitFn(sig, default) ==
    [kind |-> "Fn", ident |-> sig.ident, sig |-> sig, default |-> default]
TraitConst(ident, default) ==
    [kind |-> "Const", ident |-> ident, sig |-> Sig(ident, <<>>, "()"),
     default |-> default]

\* errors.rs weak_default_required_error: the message names the method.
weak_default_required_error(method) ==
    "default implementation of method " \o method.sig.ident
        \o " will not work as expected and therefore is not allowed"
        \o " without the weak_default feature"

\* errors.rs generic_not_allowed_error
generic_not_allowed_error == "generic parameters are not allowed in crate_interface"

\* The linkage def_interface gives the definition made from a default body.
DefaultLinkage == "weak"

\* The plausible slip: the implementation's exported function is made weak too.
ExportLinkage_weak == "weak"

\* The linkage of the function impl_interface exports with #[export_name].
ExportLinkage == "external"

\* def_interface.rs, the collection of the method signatures (lines 173-182):
\* a later method of the same name replaces an earlier one.
collect_method_signatures(items) ==
    LET fns == {i \in 1..Len(items) : items[i].kind = "Fn"}
    IN [name \in {items[i].sig.ident : i \in fns} |->
           items[CHOOSE i \in fns :
                    /\ items[i].sig.ident = name
                    /\ \A j \in fns : items[j].sig.ident = name => j <= i].sig]

\* The default body of a method moved into the weak definition of its extern
\* function (lines 211-234), and the call of that function left in its place.
weak_default_impl(ast, macro_arg, method_signatures, iter_order, method) ==
    LET extern_name == extern_fn_name(macro_arg.namespace, ast.ident,
                                      method.sig.ident)
    IN [weak |-> [linkage |-> DefaultLinkage,
                  name |-> extern_name,
                  sig |-> [method.sig EXCEPT !.ident = extern_name],
                  body |-> rewrite_self_in_default_body(
                              Unwrap(method.default), ast.ident,
                              macro_arg.namespace, method_signatures, iter_order)],
        call |-> [fn |-> extern_name,
                  args |-> extract_caller_args(method.sig).val]]

\* The plausible slip: a default body is let through without the feature.
def_interface_item_error_any_default(macro_arg, weak_default, method) ==
    CASE method.kind # "Fn" -> ""
      [] ~validate_fn_signature(method.sig).ok ->
            validate_fn_signature(method.sig).err
      [] /\ (weak_default /\ IsSome(method.default)) \/ macro_arg.gen_caller
         /\ ~extract_caller_args(method.sig).ok ->
            extract_caller_args(method.sig).err
      [] OTHER -> ""

\* The error the loop over the trait's items (lines 187-249) ends with at
\* this item, or "" when the item passes.
def_interface_item_error(macro_arg, weak_default, method) ==
    CASE method.kind # "Fn" -> ""
      [] ~validate_fn_signature(method.sig).ok ->
            validate_fn_signature(method.sig).err
      [] ~weak_default /\ IsSome(method.default) ->
            weak_default_required_error(method)
      [] /\ (weak_default /\ IsSome(method.default)) \/ macro_arg.gen_caller
         /\ ~extract_caller_args(method.sig).ok ->
            extract_caller_args(method.sig).err
      [] OTHER -> ""

\* The plausible slip: the forwarding function calls the symbol without the
\* namespace.
caller_fn_no_ns(ast, macro_arg, method) ==
    [vis |-> ast.vis, sig |-> method.sig,
     mod |-> extern_fn_mod_name(ast.ident),
     fn |-> extern_fn_name(None, ast.ident, method.sig.ident),
     args |-> extract_caller_args(method.sig).val]

\* The forwarding function of a method (lines 236-247): the method's own
\* signature, and in its body the call of the extern function in the module
\* of extern declarations with the method's arguments.
caller_fn(ast, macro_arg, method) ==
    [vis |-> ast.vis, sig |-> method.sig,
     mod |-> extern_fn_mod_name(ast.ident),
     fn |-> extern_fn_name(macro_arg.namespace, ast.ident, method.sig.ident),
     args |-> extract_caller_args(method.sig).val]

\* The plausible slip: a method with a default body gets no extern
\* declaration, its weak definition standing in for it.
def_interface_item_no_extern_for_default(ast, macro_arg, weak_default, iter_order, method_signatures, method) ==
    IF method.kind # "Fn"
    THEN [item |-> method, extern_fn_list |-> <<>>, callers |-> <<>>]
    ELSE LET extern_name == extern_fn_name(macro_arg.namespace, ast.ident,
                                           method.sig.ident)
         IN [item |-> IF weak_default /\ IsSome(method.default)
                      THEN [method EXCEPT !.default =
                               Some(weak_default_impl(ast, macro_arg,
                                       method_signatures, iter_order, method))]
                      ELSE method,
             extern_fn_list |->
                 IF IsSome(method.default) THEN <<>>
                 ELSE <<[vis |-> "pub",
                         sig |-> [method.sig EXCEPT !.ident = extern_name]]>>,
             callers |->
                 IF macro_arg.gen_caller
                 THEN <<caller_fn(ast, macro_arg, method)>>
                 ELSE <<>>]

\* What the loop makes of one item that passes: the item as rewritten, the
\* extern declaration and the forwarding function it adds.
def_interface_item(ast, macro_arg, weak_default, iter_order, method_signatures, method) ==
    IF method.kind # "Fn"
    THEN [item |-> method, extern_fn_list |-> <<>>, callers |-> <<>>]
    ELSE LET extern_name == extern_fn_name(macro_arg.namespace, ast.ident,
                                           method.sig.ident)
         IN [item |-> IF weak_default /\ IsSome(method.default)
                      THEN [method EXCEPT !.default =
                               Some(weak_default_impl(ast, macro_arg,
                                       method_signatures, iter_order, method))]
                      ELSE method,
             extern_fn_list |->
                 <<[vis |-> "pub",
                    sig |-> [method.sig EXCEPT !.ident = extern_name]]>>,
             callers |->
                 IF macro_arg.gen_caller
                 THEN <<caller_fn(ast, macro_arg, method)>>
                 ELSE <<>>]

\* The concatenation of the sequences f[1], ..., f[n].
RECURSIVE Concat(_, _)
Concat(f, n) == IF n = 0 THEN <<>> ELSE Concat(f, n - 1) \o f[n]

\* The plausible slip: the guard constants are put in front of the trait's
\* own items.
def_interface_guards_first(ast, macro_arg, weak_default, iter_order) ==
    LET n == Len(ast.items)
        failed == {i \in 1..n :
                     def_interface_item_error(macro_arg, weak_default,
                                              ast.items[i]) # ""}
        method_signatures ==
            IF weak_default THEN collect_method_signatures(ast.items) ELSE <<>>
        body == [i \in 1..n |->
                    def_interface_item(ast, macro_arg, weak_default, iter_order,
                                       method_signatures, ast.items[i])]
        guards == <<TraitConst(alias_guard_name(ast.ident), Some("()"))>>
                  \o (IF IsSome(macro_arg.namespace)
                      THEN <<TraitConst(namespace_guard_name(
                                Unwrap(macro_arg.namespace)), None)>>
                      ELSE <<>>)
    IN IF ast.generics THEN Err(generic_not_allowed_error)
       ELSE IF failed # {}
       THEN Err(def_interface_item_error(macro_arg, weak_default,
                   ast.items[CHOOSE i \in failed : \A j \in failed : i <= j]))
       ELSE Ok([trait |-> [ast EXCEPT !.items =
                              guards \o [i \in 1..n |-> body[i].item]],
                mod |-> [vis |-> ast.vis,
                         name |-> extern_fn_mod_name(ast.ident),
                         externs |-> Concat([i \in 1..n |->
                                        body[i].extern_fn_list], n)],
                callers |-> Concat([i \in 1..n |-> body[i].callers], n)])

\* The plausible slip: every item is looked at and the last error is kept.
def_interface_last_error(ast, macro_arg, weak_default, iter_order) ==
    LET failed == {i \in 1..Len(ast.items) :
                     def_interface_item_error(macro_arg, weak_default,
                                              ast.items[i]) # ""}
    IN IF ast.generics THEN Err(generic_not_allowed_error)
       ELSE IF failed # {}
       THEN Err(def_interface_item_error(macro_arg, weak_default,
                   ast.items[CHOOSE i \in failed : \A j \in failed : j <= i]))
       ELSE Ok([trait |-> ast,
                mod |-> [vis |-> ast.vis, name |-> extern_fn_mod_name(ast.ident),
                         externs |-> <<>>],
                callers |-> <<>>])

\* def_interface.rs def_interface.  macro_arg is [gen_caller, namespace];
\* weak_default is the crate feature; iter_order is the iteration order of
\* the proxy map.  The first item in error ends the expansion with its
\* error.  The result is the trait with the two guards appended, the module
\* of extern declarations, and the forwarding functions.
def_interface(ast, macro_arg, weak_default, iter_order) ==
    LET n == Len(ast.items)
        failed == {i \in 1..n :
                     def_interface_item_error(macro_arg, weak_default,
                                              ast.items[i]) # ""}
        method_signatures ==
            IF weak_default THEN collect_method_signatures(ast.items) ELSE <<>>
        body == [i \in 1..n |->
                    def_interface_item(ast, macro_arg, weak_default, iter_order,
                                       method_signatures, ast.items[i])]
        guards == <<TraitConst(alias_guard_name(ast.ident), Some("()"))>>
                  \o (IF IsSome(macro_arg.namespace)
                      THEN <<TraitConst(namespace_guard_name(
                                Unwrap(macro_arg.namespace)), None)>>
                      ELSE <<>>)
    IN CASE ast.generics -> Err(generic_not_allowed_error)
         [] ~ast.generics /\ failed # {} ->
               Err(def_interface_item_error(macro_arg, weak_default,
                      ast.items[CHOOSE i \in failed : \A j \in failed : i <= j]))
         [] OTHER ->
               Ok([trait |-> [ast EXCEPT !.items =
                                 [i \in 1..n |-> body[i].item] \o guards],
                   mod |-> [vis |-> ast.vis,
                            name |-> extern_fn_mod_name(ast.ident),
                            externs |-> Concat([i \in 1..n |->
                                           body[i].extern_fn_list], n)],
                   callers |-> Concat([i \in 1..n |-> body[i].callers], n)])

-----------------------------------------------------------------------------
(* impl_interface.rs.  An impl block (syn::ItemImpl): trait_ is the path   *)
(* of the implemented trait or None, self_ty the target type (kind Path    *)
(* with its segments, or another kind of type), items the methods (sig     *)
(* and statements).                                                        *)
ImplFn(sig, stmts) ==
    [kind |-> "Fn", ident |-> sig.ident, sig |-> sig, stmts |-> stmts,
     export |-> None]
ImplConst(ident) ==
    [kind |-> "Const", ident |-> ident, sig |-> Sig(ident, <<>>, "()"),
     stmts |-> <<>>, export |-> None]

\* The plausible slip: the body moves into the exported function's place and
\* the method calls the exported function, which calls the method.
RECURSIVE impl_interface_items_body_moved(_, _, _, _, _, _)
impl_interface_items_body_moved(ast, macro_arg, trait_name, impl_name, i, acc) ==
    IF i > Len(ast.items) THEN Ok(acc)
    ELSE LET method == ast.items[i]
             sig == method.sig
             export_name == extern_fn_name(macro_arg.namespace, trait_name, sig.ident)
             args == extract_caller_args(sig)
             item == [method EXCEPT
                         !.stmts = <<Call(Path(<<export_name>>),
                                          [j \in 1..Len(args.val) |->
                                              Path(<<args.val[j]>>)])>>,
                         !.export =
                             Some([linkage |-> ExportLinkage, name |-> export_name,
                                   sig |-> [sig EXCEPT !.ident = export_name],
                                   call |-> [ty |-> impl_name, fn |-> sig.ident,
                                             args |-> args.val]])]
         IN IF method.kind # "Fn"
            THEN impl_interface_items_body_moved(ast, macro_arg, trait_name,
                                                 impl_name, i + 1, Append(acc, method))
            ELSE IF ~validate_fn_signature(sig).ok
            THEN Err(validate_fn_signature(sig).err)
            ELSE IF ~args.ok THEN Err(args.err)
            ELSE impl_interface_items_body_moved(ast, macro_arg, trait_name,
                                                 impl_name, i + 1, Append(acc, item))

\* The loop over the impl's items (lines 27-63): each method gets, nested in
\* its body, the exported function that forwards to impl_name::fn_name.
RECURSIVE impl_interface_items(_, _, _, _, _, _)
impl_interface_items(ast, macro_arg, trait_name, impl_name, i, acc) ==
    IF i > Len(ast.items) THEN Ok(acc)
    ELSE LET method == ast.items[i]
             sig == method.sig
             fn_name == sig.ident
             export_name == extern_fn_name(macro_arg.namespace, trait_name, fn_name)
             valid == validate_fn_signature(sig)
             new_sig == [sig EXCEPT !.ident = export_name]
             args == extract_caller_args(sig)
             call_impl == [ty |-> impl_name, fn |-> fn_name, args |-> args.val]
             item == [method EXCEPT !.export =
                         Some([linkage |-> ExportLinkage, name |-> export_name,
                               sig |-> new_sig, call |-> call_impl])]
         IN IF method.kind # "Fn"
            THEN impl_interface_items(ast, macro_arg, trait_name, impl_name,
                                      i + 1, Append(acc, method))
            ELSE IF ~valid.ok THEN Err(valid.err)
            ELSE IF ~args.ok THEN Err(args.err)
            ELSE impl_interface_items(ast, macro_arg, trait_name, impl_name,
                                      i + 1, Append(acc, item))

\* impl_interface.rs impl_interface.  macro_arg is [namespace].
impl_interface(ast, macro_arg) ==
    IF ~IsSome(ast.trait_) THEN Err("expect a trait implementation")
    ELSE IF ast.self_ty.kind # "Path" THEN Err("expect a trait implementation")
    ELSE IF Len(ast.self_ty.segs) # 1 THEN Err("panicked: unwrap on None")
    ELSE LET path == Unwrap(ast.trait_)
             trait_name == path[Len(path)]
             impl_name == ast.self_ty.segs[1]
             body == impl_interface_items(ast, macro_arg, trait_name, impl_name,
                                          1, <<>>)
             alias_guard == ImplConst(alias_guard_name(trait_name))
             ns_guard == ImplConst(namespace_guard_name(Unwrap(macro_arg.namespace)))
         IN IF ~body.ok THEN Err(body.err)
            ELSE Ok([ast EXCEPT !.items =
                        Append(body.val, alias_guard)
                        \o (IF IsSome(macro_arg.namespace)
                            THEN <<ns_guard>> ELSE <<>>)])

\* A receiver (syn::FnArg::Receiver) written self, &self or &mut self.
Receiver(form) == [kind |-> "Receiver", pat |-> form, name |-> "self", ty |-> "Self"]

\* The inputs of a signature that are typed arguments, in order.
typed_inputs(sig) == SelectSeq(sig.inputs, LAMBDA a : a.kind = "Typed")

\* lib.rs impl_interface, the loop over the impl's items (lines 232-284): no
\* signature is validated.  A receiver sets has_self and is left out of
\* the exported function's inputs, and the exported function then makes a
\* value of the target type and calls the method on it.
lib_impl_interface_item(macro_arg, trait_name, impl_name, method) ==
    IF method.kind # "Fn" THEN method
    ELSE LET sig == method.sig
             export_name == lib_extern_fn_name(macro_arg.namespace, trait_name,
                                               sig.ident)
             has_self == \E i \in 1..Len(sig.inputs) :
                            sig.inputs[i].kind = "Receiver"
             args == [i \in 1..Len(typed_inputs(sig)) |-> typed_inputs(sig)[i].name]
         IN [method EXCEPT !.export =
                Some([linkage |-> ExportLinkage, name |-> export_name,
                      sig |-> [sig EXCEPT !.ident = export_name,
                                          !.inputs = typed_inputs(sig)],
                      call |-> [ty |-> impl_name, fn |-> sig.ident, args |-> args,
                                has_self |-> has_self]])]

\* lib.rs impl_interface (lines 217-299), the attribute's entry point in the
\* crate root.
lib_impl_interface(ast, macro_arg) ==
    IF ~IsSome(ast.trait_) THEN Err("expect a trait implementation")
    ELSE IF ast.self_ty.kind # "Path" THEN Err("expect a trait implementation")
    ELSE IF Len(ast.self_ty.segs) # 1 THEN Err("panicked: unwrap on None")
    ELSE LET path == Unwrap(ast.trait_)
             trait_name == path[Len(path)]
             impl_name == ast.self_ty.segs[1]
             alias_guard == ImplConst(alias_guard_name(trait_name))
         IN Ok([ast EXCEPT !.items =
                   [i \in 1..Len(ast.items) |->
                       lib_impl_interface_item(macro_arg, trait_name, impl_name,
                                               ast.items[i])]
                   \o <<alias_guard>>
                   \o (IF IsSome(macro_arg.namespace)
                       THEN <<ImplConst(namespace_guard_name(
                                 Unwrap(macro_arg.namespace)))>>
                       ELSE <<>>)])

\* The plausible slip: the segments before the interface come out in the
\* order they are popped.
call_interface_prefix_reversed(call) ==
    LET path == call.path.segments
        n == Len(path)
    IN IF n < 2 THEN Err("panicked: unwrap on None")
       ELSE Ok([unsafe |-> TRUE,
                leading_colon |-> FALSE,
                path |-> Append(Reverse(SubSeq(path, 1, n - 2)),
                                lib_extern_fn_mod_name(path[n - 1])),
                fn |-> lib_extern_fn_name(call.namespace, path[n - 1], path[n]),
                args |-> call.args])

-----------------------------------------------------------------------------
(* lib.rs call_interface.  call is the parsed CallInterface: namespace,    *)
(* path (leading_colon, segments) and args.  The check of the path length  *)
(* builds an error and drops it, so a one-segment path reaches the second  *)
(* pop().unwrap() and the macro panics.  The rewritten call is             *)
(* unsafe { <prefix>::<mod>::<extern fn>(args) }, printed from the         *)
(* segments alone.                                                         *)
call_interface(call) ==
    LET path == call.path.segments
        n == Len(path)
    IN IF n < 2 THEN Err("panicked: unwrap on None")
       ELSE LET fn_name == path[n]
                trait_name == path[n - 1]
                extern_name == lib_extern_fn_name(call.namespace, trait_name, fn_name)
                prefix == SubSeq(path, 1, n - 2)
            IN Ok([unsafe |-> TRUE,
                   leading_colon |-> FALSE,
                   path |-> Append(prefix, lib_extern_fn_mod_name(trait_name)),
                   fn |-> extern_name,
                   args |-> call.args])

-----------------------------------------------------------------------------
(* The compiler's check of an impl block against the trait it implements   *)
(* (the compile_fail examples of lib.rs, lines 179-213): every item of the *)
(* impl must be a member of the trait, with the same signature, and every  *)
(* trait item without a default must be given by the impl.                 *)
trait_impl_check(trait_items, impl_items) ==
    IF \E i \in 1..Len(impl_items) :
          ~\E j \in 1..Len(trait_items) :
              /\ trait_items[j].kind = impl_items[i].kind
              /\ trait_items[j].ident = impl_items[i].ident
    THEN "not a member of trait"
    ELSE IF \E j \in 1..Len(trait_items) :
          /\ ~IsSome(trait_items[j].default)
          /\ ~\E i \in 1..Len(impl_items) :
                 /\ impl_items[i].kind = trait_items[j].kind
                 /\ impl_items[i].ident = trait_items[j].ident
    THEN "missing trait items"
    ELSE IF \E i \in 1..Len(impl_items), j \in 1..Len(trait_items) :
          /\ trait_items[j].kind = impl_items[i].kind
          /\ trait_items[j].ident = impl_items[i].ident
          /\ trait_items[j].sig # impl_items[i].sig
    THEN "incompatible signature"
    ELSE ""

-----------------------------------------------------------------------------
(* Linking.  A definition of a symbol: its name, its linkage, the unit     *)
(* that holds it and its code.  The definition made from a default body    *)
(* (def_interface.rs lines 220-225) and the function an impl exports       *)
(* (impl_interface.rs lines 52-57) are the only two kinds.                 *)
RECURSIVE weak_definitions(_, _)
weak_definitions(unit, items) ==
    IF items = <<>> THEN {}
    ELSE LET it == Head(items)
         IN (IF it.kind = "Fn" /\ IsSome(it.default)
                /\ "weak" \in DOMAIN Unwrap(it.default)
             THEN {[name |-> Unwrap(it.default).weak.name,
                    linkage |-> Unwrap(it.default).weak.linkage,
                    unit |-> unit,
                    kind |-> "default",
                    sig |-> Unwrap(it.default).weak.sig,
                    code |-> Unwrap(it.default).weak.body]}
             ELSE {})
            \cup weak_definitions(unit, Tail(items))

RECURSIVE export_definitions(_, _)
export_definitions(unit, items) ==
    IF items = <<>> THEN {}
    ELSE LET it == Head(items)
         IN (IF it.kind = "Fn" /\ IsSome(it.export)
             THEN {[name |-> Unwrap(it.export).name,
                    linkage |-> Unwrap(it.export).linkage,
                    unit |-> unit,
                    kind |-> "export",
                    sig |-> Unwrap(it.export).sig,
                    code |-> Unwrap(it.export).call]}
             ELSE {})
            \cup export_definitions(unit, Tail(items))

\* The plausible slip: the linker keeps whichever definition came first.
link_symbol_first(tab, d) ==
    IF d.name \notin DOMAIN tab THEN Ok(MapPut(tab, d.name, d))
    ELSE Ok(tab)

\* One definition meets the symbol table: a new name is entered; a weak
\* definition gives way to a non-weak one whichever came first; of two weak
\* ones the first stays; two non-weak ones are a duplicate symbol.
link_symbol(tab, d) ==
    IF d.name \notin DOMAIN tab THEN Ok(MapPut(tab, d.name, d))
    ELSE IF tab[d.name].linkage = "weak" /\ d.linkage # "weak"
    THEN Ok(MapPut(tab, d.name, d))
    ELSE IF d.linkage = "weak" THEN Ok(tab)
    ELSE Err("duplicate symbol")

RECURSIVE link_definitions(_, _)
link_definitions(tab, ds) ==
    IF ds = {} THEN Ok(tab)
    ELSE LET d == CHOOSE x \in ds : TRUE
             r == link_symbol(tab, d)
         IN IF ~r.ok THEN r ELSE link_definitions(r.val, ds \ {d})

-----------------------------------------------------------------------------
(* Running the linked program.  Values are integers and function values    *)
(* (a proxy function of a weak definition, or, in the source reading of a  *)
(* trait, one of its methods); a run that cannot proceed gives ErrVal.     *)
IntVal(n) == [t |-> "int", n |-> n, f |-> <<>>]
FnVal(f) == [t |-> "fn", n |-> 0, f |-> <<f>>]
ErrVal == [t |-> "err", n |-> 0, f |-> <<>>]

\* Parameters bound to the arguments passed, by position.
bind_args(inputs, args) ==
    [x \in {inputs[i].name : i \in 1..Len(inputs)} |->
        args[CHOOSE i \in 1..Len(inputs) : inputs[i].name = x]]

\* The method fn_name of the impl block for type ty.
impl_method(impl_set, ty, fn_name) ==
    LET found == {it \in UNION {SeqToSet(im.items) : im \in
                        {x \in impl_set : x.self_ty.segs = <<ty>>}} :
                    it.kind = "Fn" /\ it.ident = fn_name}
    IN IF found = {} THEN None ELSE Some(CHOOSE it \in found : TRUE)

BinOp(op, a, b) ==
    IF a.t # "int" \/ b.t # "int" THEN ErrVal
    ELSE IF op = "*" THEN IntVal(a.n * b.n)
    ELSE IF op = "+" THEN IntVal(a.n + b.n)
    ELSE IF op = "-" THEN IntVal(a.n - b.n)
    ELSE ErrVal

(* world: [mode |-> "linked", symtab, impls, proxies] runs emitted code:   *)
(* a call goes through the symbol table.  [mode |-> "source", trait,       *)
(* overrides] reads the trait as written: Self::m is the implementation's  *)
(* method m when the implementation has one and the default body of m      *)
(* otherwise.                                                              *)
RECURSIVE Eval(_, _, _, _)
RECURSIVE EvalStmts(_, _, _, _)
RECURSIVE EvalArgs(_, _, _, _)
RECURSIVE CallValue(_, _, _, _)
RECURSIVE ExecSymbol(_, _, _, _)
RECURSIVE SourceCall(_, _, _, _)

Eval(world, e, env, fuel) ==
    IF e.k = "lit" THEN IntVal(e.v)
    ELSE IF e.k = "path" /\ Len(e.segs) = 1
    THEN IF e.segs[1] \in DOMAIN env THEN env[e.segs[1]]
         ELSE IF world.mode = "linked"
                 /\ \E i \in 1..Len(world.proxies) :
                        world.proxies[i].sig.ident = e.segs[1]
         THEN FnVal(world.proxies[CHOOSE i \in 1..Len(world.proxies) :
                        world.proxies[i].sig.ident = e.segs[1]])
         ELSE ErrVal
    ELSE IF e.k = "path"
    THEN IF world.mode = "source" /\ Len(e.segs) = 2 /\ e.segs[1] = "Self"
         THEN FnVal(e.segs[2])
         ELSE ErrVal
    ELSE IF e.k = "bin"
    THEN BinOp(e.segs[1], Eval(world, e.sub[1], env, fuel),
               Eval(world, e.sub[2], env, fuel))
    ELSE IF e.k = "call"
    THEN CallValue(world, Eval(world, e.sub[1], env, fuel),
                   EvalArgs(world, Tail(e.sub), env, fuel), fuel)
    ELSE IF e.k = "block" THEN EvalStmts(world, e.sub, env, fuel)
    ELSE ErrVal

EvalArgs(world, es, env, fuel) ==
    IF es = <<>> THEN <<>>
    ELSE <<Eval(world, Head(es), env, fuel)>> \o EvalArgs(world, Tail(es), env, fuel)

EvalStmts(world, stmts, env, fuel) ==
    IF stmts = <<>> THEN ErrVal
    ELSE IF Head(stmts).k = "let"
    THEN EvalStmts(world, Tail(stmts),
                   MapPut(env, Head(stmts).segs[1],
                          Eval(world, Head(stmts).sub[1], env, fuel)),
                   fuel)
    ELSE IF Len(stmts) = 1 THEN Eval(world, Head(stmts), env, fuel)
    ELSE EvalStmts(world, Tail(stmts), env, fuel)

CallValue(world, f, args, fuel) ==
    IF f.t # "fn" \/ fuel = 0 \/ \E i \in 1..Len(args) : args[i].t = "err"
    THEN ErrVal
    ELSE IF world.mode = "source" THEN SourceCall(world, f.f[1], args, fuel - 1)
    ELSE LET proxy == f.f[1]
             typed == SelectSeq(proxy.sig.inputs, LAMBDA a : a.kind = "Typed")
         IN IF Len(typed) # Len(args) THEN ErrVal
            ELSE LET env == bind_args(typed, args)
                 IN ExecSymbol(world, proxy.fn,
                               [i \in 1..Len(proxy.args) |-> env[proxy.args[i]]],
                               fuel - 1)

\* A call of the symbol sym: the definition the linker chose runs.
ExecSymbol(world, sym, args, fuel) ==
    IF fuel = 0 \/ sym \notin DOMAIN world.symtab THEN ErrVal
    ELSE LET d == world.symtab[sym]
             typed == SelectSeq(d.sig.inputs, LAMBDA a : a.kind = "Typed")
         IN IF Len(typed) # Len(args) THEN ErrVal
            ELSE IF d.kind = "default"
            THEN EvalStmts([world EXCEPT !.proxies = d.code.proxy_fns],
                           d.code.stmts, bind_args(typed, args), fuel)
            ELSE LET env == bind_args(typed, args)
                     passed == [i \in 1..Len(d.code.args) |-> env[d.code.args[i]]]
                     m == impl_method(world.impls, d.code.ty, d.code.fn)
                 IN IF ~IsSome(m) THEN ErrVal
                    ELSE LET params == SelectSeq(Unwrap(m).sig.inputs,
                                                 LAMBDA a : a.kind = "Typed")
                         IN IF Len(params) # Len(passed) THEN ErrVal
                            ELSE EvalStmts([world EXCEPT !.proxies = <<>>],
                                           Unwrap(m).stmts,
                                           bind_args(params, passed), fuel)

\* The trait as written: method m of the implementation, else its default.
SourceCall(world, m, args, fuel) ==
    IF fuel = 0 THEN ErrVal
    ELSE IF m \in DOMAIN world.overrides
    THEN LET o == world.overrides[m]
         IN IF Len(o.sig.inputs) # Len(args) THEN ErrVal
            ELSE EvalStmts(world, o.stmts, bind_args(o.sig.inputs, args), fuel)
    ELSE LET ms == {i \in 1..Len(world.trait.items) :
                        /\ world.trait.items[i].kind = "Fn"
                        /\ world.trait.items[i].ident = m
                        /\ IsSome(world.trait.items[i].default)}
         IN IF ms = {} THEN ErrVal
            ELSE LET it == world.trait.items[CHOOSE i \in ms : TRUE]
                 IN IF Len(it.sig.inputs) # Len(args) THEN ErrVal
                    ELSE EvalStmts(world, Unwrap(it.default).sub,
                                   bind_args(it.sig.inputs, args), fuel)

-----------------------------------------------------------------------------
(* args.rs.  A macro's input is a sequence of tokens: an identifier (s its *)
(* text), a punctuation mark (s is "=", "," or "::"), a literal (n its     *)
(* value) or a parenthesized group (stream its tokens).  A parser reads    *)
(* the tokens from the left; what is left of the input is the rest.        *)
Ident(s) == [t |-> "ident", s |-> s, n |-> 0, stream |-> <<>>]
Punct(s) == [t |-> "punct", s |-> s, n |-> 0, stream |-> <<>>]
Literal(n) == [t |-> "lit", s |-> "", n |-> n, stream |-> <<>>]
Group(stream) == [t |-> "group", s |-> "(", n |-> 0, stream |-> stream]

KEY_GEN_CALLER == "gen_caller"
KEY_NAMESPACE == "namespace"

\* errors.rs
duplicate_arg_error(ident) == "duplicate argument: " \o ident
unknown_arg_error(ident) == "unknown argument: " \o ident

\* input.peek(Token![x])
peek(input, s) == input # <<>> /\ Head(input) = Punct(s)

\* `= <ident>` after the key namespace (lines 46-48, 85-87): the namespace
\* and the rest of the input.
parse_namespace_value(input) ==
    IF ~peek(input, "=") THEN Err("expected =")
    ELSE IF Len(input) < 2 \/ input[2].t # "ident" THEN Err("expected identifier")
    ELSE Ok([namespace |-> input[2].s, rest |-> SubSeq(input, 3, Len(input))])

\* if !input.is_empty() { input.parse::<Token![,]>()?; }: the rest after it.
parse_separator(input) ==
    IF input = <<>> THEN Ok(<<>>)
    ELSE IF peek(input, ",") THEN Ok(Tail(input))
    ELSE Err("expected ,")

\* The plausible slip: def_interface takes an unknown option for nothing.
RECURSIVE DefInterfaceArgs_parse_lenient(_, _)
DefInterfaceArgs_parse_lenient(input, arg) ==
    IF input = <<>> THEN Ok(arg)
    ELSE IF Head(input).t # "ident" THEN Err("expected identifier")
    ELSE LET ident == Head(input).s
             value == parse_namespace_value(Tail(input))
             after == IF ident = KEY_NAMESPACE
                      THEN (IF value.ok THEN parse_separator(value.val.rest) ELSE value)
                      ELSE parse_separator(Tail(input))
         IN CASE ident = KEY_GEN_CALLER /\ arg.gen_caller ->
                    Err(duplicate_arg_error(ident))
              [] ident = KEY_NAMESPACE /\ IsSome(arg.namespace) ->
                    Err(duplicate_arg_error(ident))
              [] OTHER ->
                    IF ~after.ok THEN Err(after.err)
                    ELSE DefInterfaceArgs_parse_lenient(after.val,
                            IF ident = KEY_GEN_CALLER
                            THEN [arg EXCEPT !.gen_caller = TRUE]
                            ELSE IF ident = KEY_NAMESPACE
                            THEN [arg EXCEPT !.namespace = Some(value.val.namespace)]
                            ELSE arg)

\* The plausible slip: a repeated option of def_interface replaces the
\* earlier one.
RECURSIVE DefInterfaceArgs_parse_last_wins(_, _)
DefInterfaceArgs_parse_last_wins(input, arg) ==
    IF input = <<>> THEN Ok(arg)
    ELSE IF Head(input).t # "ident" THEN Err("expected identifier")
    ELSE LET ident == Head(input).s
             value == parse_namespace_value(Tail(input))
             after == IF ident = KEY_NAMESPACE
                      THEN (IF value.ok THEN parse_separator(value.val.rest) ELSE value)
                      ELSE parse_separator(Tail(input))
         IN CASE ident \notin {KEY_GEN_CALLER, KEY_NAMESPACE} ->
                    Err(unknown_arg_error(ident))
              [] OTHER ->
                    IF ~after.ok THEN Err(after.err)
                    ELSE DefInterfaceArgs_parse_last_wins(after.val,
                            IF ident = KEY_GEN_CALLER
                            THEN [arg EXCEPT !.gen_caller = TRUE]
                            ELSE [arg EXCEPT !.namespace = Some(value.val.namespace)])

\* impl Parse for DefInterfaceArgs (lines 26-62): arg is the configuration
\* read so far, DefInterfaceArgs::default() at the start.
RECURSIVE DefInterfaceArgs_parse(_, _)
DefInterfaceArgs_parse(input, arg) ==
    IF input = <<>> THEN Ok(arg)
    ELSE IF Head(input).t # "ident" THEN Err("expected identifier")
    ELSE LET ident == Head(input).s
             value == parse_namespace_value(Tail(input))
             after == IF ident = KEY_NAMESPACE
                      THEN (IF value.ok THEN parse_separator(value.val.rest) ELSE value)
                      ELSE parse_separator(Tail(input))
         IN CASE ident = KEY_GEN_CALLER /\ arg.gen_caller ->
                    Err(duplicate_arg_error(ident))
              [] ident = KEY_NAMESPACE /\ IsSome(arg.namespace) ->
                    Err(duplicate_arg_error(ident))
              [] ident \notin {KEY_GEN_CALLER, KEY_NAMESPACE} ->
                    Err(unknown_arg_error(ident))
              [] OTHER ->
                    IF ~after.ok THEN Err(after.err)
                    ELSE DefInterfaceArgs_parse(after.val,
                            IF ident = KEY_GEN_CALLER
                            THEN [arg EXCEPT !.gen_caller = TRUE]
                            ELSE [arg EXCEPT !.namespace = Some(value.val.namespace)])

\* impl Parse for ImplInterfaceArgs (lines 72-101)
RECURSIVE ImplInterfaceArgs_parse(_, _)
ImplInterfaceArgs_parse(input, arg) ==
    IF input = <<>> THEN Ok(arg)
    ELSE IF Head(input).t # "ident" THEN Err("expected identifier")
    ELSE LET ident == Head(input).s
             value == parse_namespace_value(Tail(input))
             after == IF value.ok THEN parse_separator(value.val.rest) ELSE value
         IN CASE ident = KEY_NAMESPACE /\ IsSome(arg.namespace) ->
                    Err(duplicate_arg_error(ident))
              [] ident # KEY_NAMESPACE -> Err(unknown_arg_error(ident))
              [] OTHER ->
                    IF ~after.ok THEN Err(after.err)
                    ELSE ImplInterfaceArgs_parse(after.val,
                            [arg EXCEPT !.namespace = Some(value.val.namespace)])

\* syn's parser of a path: an optional leading ::, then identifiers
\* separated by ::.  The result is the path and the rest of the input.
RECURSIVE parse_path_segments(_, _)
parse_path_segments(input, segments) ==
    IF input = <<>> \/ Head(input).t # "ident" THEN Err("expected identifier")
    ELSE IF peek(Tail(input), "::")
    THEN parse_path_segments(Tail(Tail(input)), Append(segments, Head(input).s))
    ELSE Ok([segments |-> Append(segments, Head(input).s), rest |-> Tail(input)])

parse_path(input) ==
    LET lc == peek(input, "::")
        r == parse_path_segments(IF lc THEN Tail(input) ELSE input, <<>>)
    IN IF ~r.ok THEN r
       ELSE Ok([path |-> [leading_colon |-> lc, segments |-> r.val.segments],
                rest |-> r.val.rest])

\* The plausible slip: the arguments come out in reverse order.
RECURSIVE parse_terminated_rev(_)
parse_terminated_rev(input) ==
    IF input = <<>> THEN Ok(<<>>)
    ELSE IF Head(input).t # "lit" THEN Err("expected an expression")
    ELSE LET after == parse_separator(Tail(input))
             rest == parse_terminated_rev(after.val)
         IN IF ~after.ok THEN after
            ELSE IF ~rest.ok THEN rest
            ELSE Ok(Append(rest.val, IntVal(Head(input).n)))

\* parse_terminated(Expr::parse, Token![,]): expressions separated by commas,
\* the last one followed by a comma or not, to the end of the input.
RECURSIVE parse_terminated(_)
parse_terminated(input) ==
    IF input = <<>> THEN Ok(<<>>)
    ELSE IF Head(input).t # "lit" THEN Err("expected an expression")
    ELSE LET after == parse_separator(Tail(input))
             rest == parse_terminated(after.val)
         IN IF ~after.ok THEN after
            ELSE IF ~rest.ok THEN rest
            ELSE Ok(<<IntVal(Head(input).n)>> \o rest.val)

\* get_ident(): the identifier a path consists of, if it is nothing else.
get_ident(path) ==
    IF ~path.leading_colon /\ Len(path.segments) = 1
    THEN Some(path.segments[1]) ELSE None

\* The leading `namespace = X,` of a call (lines 122-131): the namespace,
\* the path that follows it and the rest.  first is the path read so far.
parse_call_namespace(first) ==
    LET value == parse_namespace_value(first.rest)
        comma == IF peek(value.val.rest, ",") THEN Ok(Tail(value.val.rest))
                 ELSE Err("expected ,")
        second == parse_path(comma.val)
    IN IF get_ident(first.path) # Some(KEY_NAMESPACE)
       THEN Ok([namespace |-> None, path |-> first.path, rest |-> first.rest])
       ELSE IF ~value.ok THEN value
       ELSE IF ~comma.ok THEN comma
       ELSE IF ~second.ok THEN second
       ELSE Ok([namespace |-> Some(value.val.namespace),
                path |-> second.val.path, rest |-> second.val.rest])

\* The arguments of a call (lines 133-141): after a comma, to the end of the
\* input; or in one parenthesized group, which must end the input; or none.
parse_call_args(input) ==
    IF peek(input, ",") THEN parse_terminated(Tail(input))
    ELSE IF input = <<>> THEN Ok(<<>>)
    ELSE IF Head(input).t # "group" THEN Err("expected parentheses")
    ELSE IF Tail(input) # <<>> THEN Err("unexpected token")
    ELSE parse_terminated(Head(input).stream)

\* impl Parse for CallInterface (lines 113-148)
CallInterface_parse(input) ==
    LET first == parse_path(input)
        head == parse_call_namespace(first.val)
        args == parse_call_args(head.val.rest)
    IN IF ~first.ok THEN first
       ELSE IF ~head.ok THEN head
       ELSE IF ~args.ok THEN args
       ELSE Ok([namespace |-> head.val.namespace, path |-> head.val.path,
                args |-> args.val])

\* The plausible slip: a path of one segment is taken for a method of an
\* interface without a name.
call_interface_macro_short(item) ==
    LET call == CallInterface_parse(item)
    IN IF ~call.ok THEN Err(call.err)
       ELSE IF Len(call.val.path.segments) < 2
       THEN Ok([unsafe |-> TRUE, leading_colon |-> FALSE, path |-> <<>>,
                fn |-> call.val.path.segments[1], args |-> call.val.args])
       ELSE call_interface(call.val)

\* lib.rs call_interface, from the macro's tokens (lines 308-329):
\* parse_macro_input!(item as CallInterface), then the rewriting.
call_interface_macro(item) ==
    LET call == CallInterface_parse(item)
    IN IF ~call.ok THEN Err(call.err) ELSE call_interface(call.val)

-----------------------------------------------------------------------------
(* The crates that are built.  Each workspace is one of the repository's   *)
(* test programs: its traits, its impl blocks (with the trait each impl's  *)
(* path resolves to, which `use` declarations decide), and whether the     *)
(* weak_default feature is on.                                             *)

\* Evaluation depth allowed to a run (calls nested through proxies).
Fuel == 4

\* Argument values of the calls (test-simple calls compute(10, 5)).
ArgVals == {5, 10}

\* The namespace options written in the attributes.
NsOpt == {None, Some("A_NS"), Some("B_NS")}

\* The iteration orders of the proxy map that a build may see.
HashSeeds == {0, 1}

U32(name) == Typed(name, "u32")
I32(name) == Typed(name, "i32")

\* define-simple-traits: SimpleIf (get_name, which returns a string, is left
\* out: the values of the model are integers)
SimpleIf ==
    [module |-> <<"define_simple_traits">>, vis |-> "pub", ident |-> "SimpleIf",
     generics |-> FALSE,
     items |-> << TraitFn(Sig("get_value", <<>>, "u32"), None),
                  TraitFn(Sig("compute", <<U32("a"), U32("b")>>, "u32"), None) >>]

\* tests/test_crate_interface.rs: mod a, mod b
NamespaceIf(m) ==
    [module |-> <<m>>, vis |-> "pub", ident |-> "NamespaceIf", generics |-> FALSE,
     items |-> << TraitFn(Sig("qux", <<>>, "i32"), None) >>]

\* define-weak-traits: SelfRefIf (derived_with_offset, a second direct call of
\* Self::base_value, is left out)
SelfRefIf ==
    [module |-> <<"define_weak_traits">>, vis |-> "pub", ident |-> "SelfRefIf",
     generics |-> FALSE,
     items |-> <<
        TraitFn(Sig("base_value", <<>>, "u32"), Some(Block(<<Lit(100)>>))),
        TraitFn(Sig("derived_value", <<>>, "u32"),
                Some(Block(<<Bin("*", Call(Path(<<"Self", "base_value">>), <<>>),
                                 Lit(2))>>))),
        TraitFn(Sig("transform", <<I32("v")>>, "i32"),
                Some(Block(<<Bin("+", Path(<<"v">>), Lit(1))>>))),
        TraitFn(Sig("call_via_ref", <<I32("v")>>, "i32"),
                Some(Block(<<Let("f", Path(<<"Self", "transform">>)),
                             Call(Path(<<"f">>), <<Path(<<"v">>)>>)>>))),
        TraitFn(Sig("call_twice", <<I32("v")>>, "i32"),
                Some(Block(<<Let("f1", Path(<<"Self", "transform">>)),
                             Let("f2", Path(<<"Self", "transform">>)),
                             Call(Path(<<"f2">>),
                                  <<Call(Path(<<"f1">>), <<Path(<<"v">>)>>)>>)>>))),
        TraitFn(Sig("required_id", <<>>, "u32"), None) >>]

ItemImpl(trait_path, self_ty, items) ==
    [trait_ |-> Some(trait_path), self_ty |-> [kind |-> "Path", segs |-> <<self_ty>>],
     items |-> items]

\* impl-simple-traits: SimpleImpl; SubImpl is a second implementation whose
\* compute tells its arguments apart; AliasImpl names the trait through
\* `use define_simple_traits::SimpleIf as SimpleIf2`.
SimpleImpl ==
    [refers |-> <<"define_simple_traits", "SimpleIf">>,
     ast |-> ItemImpl(<<"SimpleIf">>, "SimpleImpl",
        << ImplFn(Sig("get_value", <<>>, "u32"), <<Lit(12345)>>),
           ImplFn(Sig("compute", <<U32("a"), U32("b")>>, "u32"),
                  <<Bin("+", Bin("*", Path(<<"a">>), Path(<<"b">>)), Lit(10))>>) >>)]
SubImpl ==
    [refers |-> <<"define_simple_traits", "SimpleIf">>,
     ast |-> ItemImpl(<<"SimpleIf">>, "SubImpl",
        << ImplFn(Sig("get_value", <<>>, "u32"), <<Lit(7)>>),
           ImplFn(Sig("compute", <<U32("a"), U32("b")>>, "u32"),
                  <<Bin("-", Bin("*", Path(<<"a">>), Lit(2)), Path(<<"b">>))>>) >>)]
AliasImpl ==
    [refers |-> <<"define_simple_traits", "SimpleIf">>,
     ast |-> ItemImpl(<<"SimpleIf2">>, "AliasImpl",
        << ImplFn(Sig("get_value", <<>>, "u32"), <<Lit(1)>>),
           ImplFn(Sig("compute", <<U32("a"), U32("b")>>, "u32"),
                  <<Path(<<"a">>)>>) >>)]

\* tests/test_crate_interface.rs: NamespaceIfImplA (qux = 1), NamespaceIfImplB
\* (qux = 2)
NamespaceIfImpl(m, ty, n) ==
    [refers |-> <<m, "NamespaceIf">>,
     ast |-> ItemImpl(<<m, "NamespaceIf">>, ty,
        << ImplFn(Sig("qux", <<>>, "i32"), <<Lit(n)>>) >>)]

\* impl-weak-traits: SelfRefFullImpl overrides base_value and transform
SelfRefFullImpl ==
    [refers |-> <<"define_weak_traits", "SelfRefIf">>,
     ast |-> ItemImpl(<<"SelfRefIf">>, "SelfRefFullImpl",
        << ImplFn(Sig("required_id", <<>>, "u32"), <<Lit(2)>>),
           ImplFn(Sig("base_value", <<>>, "u32"), <<Lit(500)>>),
           ImplFn(Sig("transform", <<I32("v")>>, "i32"),
                  <<Bin("*", Path(<<"v">>), Lit(10))>>) >>)]

\* impl-weak-partial: SelfRefPartialImpl overrides nothing
SelfRefPartialImpl ==
    [refers |-> <<"define_weak_traits", "SelfRefIf">>,
     ast |-> ItemImpl(<<"SelfRefIf">>, "SelfRefPartialImpl",
        << ImplFn(Sig("required_id", <<>>, "u32"), <<Lit(1)>>) >>)]

Workspaces ==
    { [name |-> "test_simple", weak_default |-> FALSE,
       traits |-> {SimpleIf},
       impls |-> {SimpleImpl, SubImpl, AliasImpl}],
      [name |-> "test_crate_interface", weak_default |-> FALSE,
       traits |-> {NamespaceIf("a"), NamespaceIf("b")},
       impls |-> {NamespaceIfImpl("a", "NamespaceIfImplA", 1),
                  NamespaceIfImpl("b", "NamespaceIfImplB", 2)}],
      [name |-> "test_weak", weak_default |-> TRUE,
       traits |-> {SelfRefIf},
       impls |-> {SelfRefFullImpl, SelfRefPartialImpl}] }

-----------------------------------------------------------------------------
(* Reading the program in the state.                                        *)

\* The trait a def expansion came from, by module and name.
TraitKey(t) == t.module \o <<t.ident>>

\* The methods of a trait, in declaration order, as the proxy map's keys.
RECURSIVE MethodNames(_)
MethodNames(items) ==
    IF items = <<>> THEN <<>>
    ELSE (IF Head(items).kind = "Fn" THEN <<Head(items).ident>> ELSE <<>>)
         \o MethodNames(Tail(items))

IterOrder(t, seed) ==
    IF seed = 0 THEN MethodNames(t.items) ELSE Reverse(MethodNames(t.items))

\* All tuples over ArgVals of length n.
RECURSIVE ArgLists(_)
ArgLists(n) ==
    IF n = 0 THEN {<<>>}
    ELSE {Append(a, v) : a \in ArgLists(n - 1), v \in ArgVals}

\* The def expansion of the trait an impl's path resolves to.
DefOf(def_set, refers) == {d \in def_set : d.key = refers}

\* The linkable units and what each defines.
DefUnit(d) == <<"def">> \o d.key
ImplUnit(im) == <<"impl", im.out.self_ty.segs[1]>>
Units(def_set, impl_set) ==
    {DefUnit(d) : d \in def_set} \cup {ImplUnit(im) : im \in impl_set}
UnitDefinitions(def_set, impl_set, u) ==
    UNION ({weak_definitions(u, d.out.trait.items) :
                d \in {x \in def_set : DefUnit(x) = u}}
           \cup {export_definitions(u, im.out.items) :
                im \in {x \in impl_set : ImplUnit(x) = u}})

\* A path through Self is still in the code (it cannot be used inside the
\* nested extern function the default body is moved into).
RECURSIVE HasSelfPath(_)
HasSelfPath(e) ==
    \/ e.k = "path" /\ Len(e.segs) >= 2 /\ e.segs[1] = "Self"
    \/ \E i \in 1..Len(e.sub) : HasSelfPath(e.sub[i])

\* The extern declaration `name` of the def expansion d, if it has one.
ExternDeclared(d, name) ==
    \E i \in 1..Len(d.out.mod.externs) : d.out.mod.externs[i].sig.ident = name

\* What the compiler says of the weak definitions of a def expansion.
WeakBodiesDiag(d) ==
    LET ws == weak_definitions(DefUnit(d), d.out.trait.items)
    IN IF \E w \in ws : HasSelfPath(Block(w.code.stmts))
       THEN "cannot use Self from outer item"
       ELSE IF \E w \in ws : \E i \in 1..Len(w.code.proxy_fns) :
                  \/ w.code.proxy_fns[i].mod # d.out.mod.name
                  \/ ~ExternDeclared(d, w.code.proxy_fns[i].fn)
       THEN "cannot find function in module"
       ELSE ""

\* The definition the call in the binary crate names: the extern declaration
\* at <prefix>::<mod>::<fn> for a call_interface call, the forwarding
\* function <module>::<fn> for a plain call.  The set is empty when the path
\* does not resolve.
CallTargets(def_set, cs) ==
    IF cs.kind = "macro"
    THEN {d \in def_set :
            /\ d.out.trait.module \o <<d.out.mod.name>> = cs.out.path
            /\ \E i \in 1..Len(d.out.mod.externs) :
                  /\ d.out.mod.externs[i].sig.ident = cs.out.fn
                  /\ Len(d.out.mod.externs[i].sig.inputs) = Len(cs.out.args)}
    ELSE {d \in def_set :
            /\ d.out.trait.module = cs.module
            /\ \E i \in 1..Len(d.out.callers) :
                  /\ d.out.callers[i].sig.ident = cs.fn
                  /\ Len(d.out.callers[i].sig.inputs) = Len(cs.args)}

\* The forwarding function a plain call names.
CallerOf(d, cs) ==
    d.out.callers[CHOOSE i \in 1..Len(d.out.callers) :
                        d.out.callers[i].sig.ident = cs.fn]

\* The symbol the call reaches and the arguments it passes, in order.
Callee(def_set, cs) ==
    IF cs.kind = "macro" THEN [sym |-> cs.out.fn, args |-> cs.out.args]
    ELSE LET c == CallerOf(CHOOSE d \in CallTargets(def_set, cs) : TRUE, cs)
             env == bind_args(c.sig.inputs, cs.args)
         IN [sym |-> c.fn, args |-> [i \in 1..Len(c.args) |-> env[c.args[i]]]]

\* The compiler's verdict on the whole program: "" or the first error.
BuildDiag(def_set, impl_set, cs) ==
    LET impl_errs == {trait_impl_check(
                          (CHOOSE d \in DefOf(def_set, im.refers) : TRUE).out.trait.items,
                          im.out.items) : im \in impl_set} \ {""}
        weak_errs == {WeakBodiesDiag(d) : d \in def_set} \ {""}
    IN IF impl_errs # {} THEN CHOOSE e \in impl_errs : TRUE
       ELSE IF weak_errs # {} THEN CHOOSE e \in weak_errs : TRUE
       ELSE IF CallTargets(def_set, cs) = {} THEN "cannot find function"
       ELSE ""

\* The plausible slip: the call's own symbol is not counted as a reference
\* (as if the extern declaration carried a definition of its own).
Referenced_no_callee(def_set, cs) ==
    UNION {{w.code.proxy_fns[i].fn : i \in 1..Len(w.code.proxy_fns)} :
              w \in UNION {weak_definitions(DefUnit(d), d.out.trait.items) :
                              d \in def_set}}

\* The symbols the linked code refers to: the call's callee and the targets
\* of the proxy functions.
Referenced(def_set, cs) ==
    {Callee(def_set, cs).sym}
    \cup UNION {{w.code.proxy_fns[i].fn : i \in 1..Len(w.code.proxy_fns)} :
                    w \in UNION {weak_definitions(DefUnit(d), d.out.trait.items) :
                                    d \in def_set}}

-----------------------------------------------------------------------------
(* The build of a workspace.                                                *)

NoNames == [a |-> <<>>, b |-> <<>>, sa |-> "", sb |-> "", done |-> FALSE]
NoParser == [macro |-> "", input |-> <<>>, tokens |-> <<>>, out |-> <<>>]
NoExpansion == [macro |-> "", input |-> <<>>, outs |-> <<>>]

Init ==
    /\ workspace \in Workspaces
    /\ defs = {}
    /\ impls = {}
    /\ callsite = None
    /\ phase = "expand"
    /\ diag = ""
    /\ linked = {}
    /\ symtab = <<>>
    /\ result = None
    /\ names = NoNames
    /\ parser = NoParser
    /\ expansion = NoExpansion

\* #[def_interface(...)] on a trait of the workspace.
DefInterface ==
    /\ phase = "expand"
    /\ \E t \in workspace.traits, gen_caller \in BOOLEAN, ns \in NsOpt,
          seed \in HashSeeds :
          /\ DefOf(defs, TraitKey(t)) = {}
          /\ LET macro_arg == [gen_caller |-> gen_caller, namespace |-> ns]
                 r == def_interface(t, macro_arg, workspace.weak_default,
                                    IterOrder(t, seed))
             IN IF r.ok
                THEN /\ defs' = defs \cup {[key |-> TraitKey(t), arg |-> macro_arg,
                                           out |-> r.val]}
                     /\ UNCHANGED <<phase, diag>>
                ELSE /\ phase' = "failed"
                     /\ diag' = r.err
                     /\ UNCHANGED defs
    /\ UNCHANGED <<workspace, impls, callsite, linked, symtab, result, names, parser, expansion>>

\* #[impl_interface(...)] on an impl block of the workspace; the trait it
\* implements is one the workspace has defined.
ImplInterface ==
    /\ phase = "expand"
    /\ \E im \in workspace.impls, ns \in NsOpt :
          /\ DefOf(defs, im.refers) # {}
          /\ ~\E x \in impls : x.ast = im.ast
          /\ LET macro_arg == [namespace |-> ns]
                 r == impl_interface(im.ast, macro_arg)
             IN IF r.ok
                THEN /\ impls' = impls \cup {[refers |-> im.refers, ast |-> im.ast,
                                             arg |-> macro_arg, out |-> r.val]}
                     /\ UNCHANGED <<phase, diag>>
                ELSE /\ phase' = "failed"
                     /\ diag' = r.err
                     /\ UNCHANGED impls
    /\ UNCHANGED <<workspace, defs, callsite, linked, symtab, result, names, parser, expansion>>

\* call_interface!(...) in the binary crate, on a method of a defined trait.
CallInterface ==
    /\ phase = "expand"
    /\ callsite = None
    /\ \E d \in defs, ns \in NsOpt :
       \E i \in 1..Len(d.out.mod.externs) :
       \E args \in ArgLists(Len(d.out.mod.externs[i].sig.inputs)) :
          LET t == CHOOSE t \in workspace.traits : TraitKey(t) = d.key
              call == [namespace |-> ns,
                       path |-> [leading_colon |-> FALSE,
                                 segments |-> d.key \o <<MethodNames(t.items)[i]>>],
                       args |-> [j \in 1..Len(args) |-> IntVal(args[j])]]
              r == call_interface(call)
          IN IF r.ok
             THEN /\ callsite' = Some([kind |-> "macro", call |-> call, out |-> r.val])
                  /\ UNCHANGED <<phase, diag>>
             ELSE /\ phase' = "failed"
                  /\ diag' = r.err
                  /\ UNCHANGED callsite
    /\ UNCHANGED <<workspace, defs, impls, linked, symtab, result, names, parser, expansion>>

\* A plain call of a forwarding function def_interface generated.
CallForwarder ==
    /\ phase = "expand"
    /\ callsite = None
    /\ \E d \in defs :
       \E i \in 1..Len(d.out.callers) :
       \E args \in ArgLists(Len(d.out.callers[i].sig.inputs)) :
          callsite' = Some([kind |-> "fn", module |-> d.out.trait.module,
                            fn |-> d.out.callers[i].sig.ident,
                            args |-> [j \in 1..Len(args) |-> IntVal(args[j])]])
    /\ UNCHANGED <<workspace, defs, impls, phase, diag, linked, symtab, result, names, parser, expansion>>

\* The compiler checks the crates.
Build ==
    /\ phase = "expand"
    /\ IsSome(callsite)
    /\ diag' = BuildDiag(defs, impls, Unwrap(callsite))
    /\ phase' = IF diag' = "" THEN "built" ELSE "failed"
    /\ UNCHANGED <<workspace, defs, impls, callsite, linked, symtab, result, names, parser, expansion>>

\* The linker takes one more unit, in any order.
LinkUnit ==
    /\ phase = "built"
    /\ \E u \in Units(defs, impls) \ linked :
          LET r == link_definitions(symtab, UnitDefinitions(defs, impls, u))
          IN IF r.ok
             THEN /\ symtab' = r.val
                  /\ linked' = linked \cup {u}
                  /\ UNCHANGED <<phase, diag>>
             ELSE /\ phase' = "failed"
                  /\ diag' = r.err
                  /\ UNCHANGED <<symtab, linked>>
    /\ UNCHANGED <<workspace, defs, impls, callsite, result, names, parser, expansion>>

\* All units are in: every referenced symbol must have a definition.
LinkFinish ==
    /\ phase = "built"
    /\ linked = Units(defs, impls)
    /\ IF Referenced(defs, Unwrap(callsite)) \subseteq DOMAIN symtab
       THEN phase' = "linked" /\ UNCHANGED diag
       ELSE phase' = "failed" /\ diag' = "unresolved symbol"
    /\ UNCHANGED <<workspace, defs, impls, callsite, linked, symtab, result, names, parser, expansion>>

World == [mode |-> "linked", symtab |-> symtab,
          impls |-> {im.out : im \in impls}, proxies |-> <<>>]

\* The program runs its call.
Run ==
    /\ phase = "linked"
    /\ LET c == Callee(defs, Unwrap(callsite))
       IN result' = Some(ExecSymbol(World, c.sym, c.args, Fuel))
    /\ phase' = "ran"
    /\ UNCHANGED <<workspace, defs, impls, callsite, diag, linked, symtab, names, parser, expansion>>

Next ==
    \/ DefInterface
    \/ ImplInterface
    \/ CallInterface
    \/ CallForwarder
    \/ Build
    \/ LinkUnit
    \/ LinkFinish
    \/ Run

Spec == Init /\ [][Next]_vars

-----------------------------------------------------------------------------
(* Name synthesis on its own: two (namespace, trait, method) triples are   *)
(* drawn and naming.rs extern_fn_name is applied to each.                  *)

NameTriples ==
    [ns : {None, Some("A"), Some("A_B")},
     trait : {"B", "A_B", "B_c"},
     fn : {"c", "B_c", "d"}]

InitNames ==
    /\ workspace \in {w \in Workspaces : w.name = "test_simple"}
    /\ defs = {}
    /\ impls = {}
    /\ callsite = None
    /\ phase = "expand"
    /\ diag = ""
    /\ linked = {}
    /\ symtab = <<>>
    /\ result = None
    /\ names \in {[a |-> <<x>>, b |-> <<y>>, sa |-> "", sb |-> "", done |-> FALSE] :
                    x \in NameTriples, y \in NameTriples}
    /\ parser = NoParser
    /\ expansion = NoExpansion

SynthNames ==
    /\ ~names.done
    /\ names.a # <<>>
    /\ names' = [names EXCEPT
                    !.sa = extern_fn_name(names.a[1].ns, names.a[1].trait,
                                          names.a[1].fn),
                    !.sb = extern_fn_name(names.b[1].ns, names.b[1].trait,
                                          names.b[1].fn),
                    !.done = TRUE]
    /\ UNCHANGED <<workspace, defs, impls, callsite, phase, diag, linked, symtab,
                   result, parser, expansion>>

NextNames == SynthNames

SpecNames == InitNames /\ [][NextNames]_vars

-----------------------------------------------------------------------------
(* The expansions on their own: one declaration and one configuration are  *)
(* drawn, and the macro is applied to them, more than once.  The           *)
(* declarations carry what the repository's test crates never do:          *)
(* generic parameters, receivers, default bodies without the weak_default  *)
(* feature, impl blocks without a trait or with a target type that is no   *)
(* plain name, call paths of one segment.                                  *)

\* How many methods a drawn trait or impl block has at most.
MaxMethods == 2

\* How many times the macro is applied to the same declaration.
Applications == 2

ExpandNs == {None, Some("A_NS")}

\* fn get_value() -> u32;  fn compute(a: u32, b: u32) -> u32;
\* fn convert<T>(a: u32) -> u32;  fn measure(self | &self | &mut self, a: u32) -> u32
ValidSigs == {Sig("get_value", <<>>, "u32"), Sig("compute", <<U32("a"), U32("b")>>, "u32")}
GenericSigs == {[Sig("convert", <<U32("a")>>, "u32") EXCEPT !.generics = TRUE]}
ReceiverSigs == {Sig("measure", <<Receiver(form), U32("a")>>, "u32") : form \in {"self", "&self", "&mut self"}}
\* fn ignore(_: u32) -> u32: an argument that is a pattern and no identifier
Wild(ty) == [kind |-> "Typed", pat |-> "Wild", name |-> "_", ty |-> ty]
PatternSigs == {Sig("ignore", <<Wild("u32")>>, "u32")}
ExpandSigs == ValidSigs \cup GenericSigs \cup ReceiverSigs \cup PatternSigs

\* The sequences over S of length 1..n whose members have different idents.
RECURSIVE ItemSeqs(_, _)
ItemSeqs(S, n) ==
    IF n = 0 THEN {<<>>}
    ELSE LET shorter == ItemSeqs(S, n - 1)
         IN shorter \cup {Append(q, x) : q \in {r \in shorter : Len(r) = n - 1},
                                         x \in S}

DistinctIdents(items) ==
    \A i, j \in 1..Len(items) : items[i].ident = items[j].ident => i = j

\* trait SumIf: a default body that refers to two sibling methods.
SumIf ==
    [module |-> <<"m">>, vis |-> "pub", ident |-> "SumIf", generics |-> FALSE,
     items |-> <<
        TraitFn(Sig("base_value", <<>>, "u32"), Some(Block(<<Lit(100)>>))),
        TraitFn(Sig("required_id", <<>>, "u32"), None),
        TraitFn(Sig("sum_value", <<>>, "u32"),
                Some(Block(<<Bin("+", Call(Path(<<"Self", "base_value">>), <<>>),
                                 Call(Path(<<"Self", "required_id">>), <<>>))>>))) >>]

\* trait MixIf: an associated constant between the methods, and a default
\* body with paths that are no Self::method: Self::LIMIT, helper::base,
\* Self::Inner::base, and a local name.
MixIf ==
    [module |-> <<"m">>, vis |-> "pub", ident |-> "MixIf", generics |-> FALSE,
     items |-> <<
        TraitFn(Sig("base", <<>>, "u32"), Some(Block(<<Lit(1)>>))),
        TraitConst("LIMIT", Some("3")),
        TraitFn(Sig("total", <<U32("v")>>, "u32"),
                Some(Block(<<Let("k", Path(<<"Self", "LIMIT">>)),
                             Let("w", Call(Path(<<"helper", "base">>), <<Path(<<"v">>)>>)),
                             Let("z", Call(Path(<<"Self", "Inner", "base">>), <<>>)),
                             Bin("+", Call(Path(<<"Self", "base">>), <<>>),
                                 Bin("+", Path(<<"k">>), Path(<<"w">>)))>>))),
        TraitFn(Sig("plain", <<U32("v")>>, "u32"),
                Some(Block(<<Bin("+", Path(<<"v">>), Path(<<"Self", "LIMIT">>))>>))) >>]

\* trait WildIf: a default body that refers to a sibling method whose
\* argument is written as _.
WildIf ==
    [module |-> <<"m">>, vis |-> "pub", ident |-> "WildIf", generics |-> FALSE,
     items |-> <<
        TraitFn(Sig("required", <<Wild("u32")>>, "u32"), None),
        TraitFn(Sig("twice", <<U32("v")>>, "u32"),
                Some(Block(<<Bin("*", Call(Path(<<"Self", "required">>), <<Path(<<"v">>)>>),
                                 Lit(2))>>))) >>]

ExpandTraits ==
    {[module |-> <<"m">>, vis |-> "pub", ident |-> "ExpandIf", generics |-> g,
      items |-> items] :
        g \in BOOLEAN,
        items \in {q \in ItemSeqs({TraitFn(sig, default) :
                                      sig \in ExpandSigs,
                                      default \in {None, Some(Block(<<Lit(1)>>))}},
                                  MaxMethods) : q # <<>> /\ DistinctIdents(q)}}
    \cup {SumIf, SelfRefIf, MixIf, WildIf}

\* The target types: ExpandImpl, m::ExpandImpl, &ExpandImpl, (ExpandImpl,)
SelfTypes ==
    {[kind |-> "Path", segs |-> <<"ExpandImpl">>],
     [kind |-> "Path", segs |-> <<"m", "ExpandImpl">>],
     [kind |-> "Reference", segs |-> <<"ExpandImpl">>],
     [kind |-> "Tuple", segs |-> <<"ExpandImpl">>]}

ExpandImpls ==
    {[trait_ |-> trait_, self_ty |-> self_ty, items |-> items] :
        trait_ \in {None, Some(<<"ExpandIf">>), Some(<<"m", "ExpandIf">>)},
        self_ty \in SelfTypes,
        items \in {q \in ItemSeqs({ImplFn(sig, <<Lit(1)>>) : sig \in ExpandSigs},
                                  MaxMethods) : q # <<>> /\ DistinctIdents(q)}}

\* How many arguments a drawn call has at most.
MaxArgs == 2

CallArgLists == UNION {ArgLists(n) : n \in 0..MaxArgs}

\* The paths of the drawn calls: get_value, ExpandIf::get_value,
\* m::ExpandIf::compute, crate::m::ExpandIf::compute
CallPaths == {<<"get_value">>, <<"ExpandIf", "get_value">>, <<"m", "ExpandIf", "compute">>, <<"crate", "m", "ExpandIf", "compute">>}

ExpandCalls ==
    {[namespace |-> ns,
      path |-> [leading_colon |-> lc, segments |-> segments],
      args |-> [j \in 1..Len(args) |-> IntVal(args[j])]] :
        ns \in ExpandNs, lc \in BOOLEAN,
        segments \in CallPaths,
        args \in CallArgLists}

ExpandInputs ==
    {[macro |-> "def_interface",
      input |-> [ast |-> t, arg |-> [gen_caller |-> gc, namespace |-> ns],
                 weak_default |-> wd],
      outs |-> <<>>] :
        t \in ExpandTraits, gc \in BOOLEAN, ns \in ExpandNs, wd \in BOOLEAN}
    \cup {[macro |-> m, input |-> [ast |-> im, arg |-> [namespace |-> ns]],
           outs |-> <<>>] :
            m \in {"impl_interface", "lib.rs impl_interface"},
            im \in ExpandImpls, ns \in ExpandNs}
    \cup {[macro |-> "call_interface", input |-> [call |-> c], outs |-> <<>>] :
            c \in ExpandCalls}

InitExpand ==
    /\ workspace \in {w \in Workspaces : w.name = "test_simple"}
    /\ defs = {}
    /\ impls = {}
    /\ callsite = None
    /\ phase = "expand"
    /\ diag = ""
    /\ linked = {}
    /\ symtab = <<>>
    /\ result = None
    /\ names = NoNames
    /\ parser = NoParser
    /\ expansion \in ExpandInputs

\* #[def_interface(...)] on the drawn trait; each application has its own
\* proxy map, and so its own iteration order.
ExpandDef ==
    /\ expansion.macro = "def_interface"
    /\ Len(expansion.outs) < Applications
    /\ \E seed \in HashSeeds :
          expansion' = [expansion EXCEPT !.outs =
              Append(@, def_interface(expansion.input.ast, expansion.input.arg,
                                      expansion.input.weak_default,
                                      IterOrder(expansion.input.ast, seed)))]
    /\ UNCHANGED <<workspace, defs, impls, callsite, phase, diag, linked, symtab, result, names, parser>>

\* #[impl_interface(...)] on the drawn impl block, by impl_interface.rs.
ExpandImpl ==
    /\ expansion.macro = "impl_interface"
    /\ Len(expansion.outs) < Applications
    /\ expansion' = [expansion EXCEPT !.outs =
          Append(@, impl_interface(expansion.input.ast, expansion.input.arg))]
    /\ UNCHANGED <<workspace, defs, impls, callsite, phase, diag, linked, symtab, result, names, parser>>

\* #[impl_interface(...)] on the drawn impl block, by the crate root lib.rs.
ExpandLibImpl ==
    /\ expansion.macro = "lib.rs impl_interface"
    /\ Len(expansion.outs) < Applications
    /\ expansion' = [expansion EXCEPT !.outs =
          Append(@, lib_impl_interface(expansion.input.ast, expansion.input.arg))]
    /\ UNCHANGED <<workspace, defs, impls, callsite, phase, diag, linked, symtab, result, names, parser>>

\* call_interface!(...) on the drawn call.
ExpandCall ==
    /\ expansion.macro = "call_interface"
    /\ Len(expansion.outs) < Applications
    /\ expansion' = [expansion EXCEPT !.outs =
          Append(@, call_interface(expansion.input.call))]
    /\ UNCHANGED <<workspace, defs, impls, callsite, phase, diag, linked, symtab, result, names, parser>>

NextExpand ==
    \/ ExpandDef
    \/ ExpandImpl
    \/ ExpandLibImpl
    \/ ExpandCall

SpecExpand == InitExpand /\ [][NextExpand]_vars

-----------------------------------------------------------------------------
(* The parsers on their own: the tokens of one macro's arguments are drawn *)
(* and parsed; for call_interface the parsed call is rewritten as well.    *)

\* How many options a drawn option list has at most.
MaxOptions == 3

\* gen_caller | namespace = A_NS | namespace = B_NS | weak | namespace
Options ==
    {<<Ident(KEY_GEN_CALLER)>>,
     <<Ident(KEY_NAMESPACE), Punct("="), Ident("A_NS")>>,
     <<Ident(KEY_NAMESPACE), Punct("="), Ident("B_NS")>>,
     <<Ident("weak")>>,
     <<Ident(KEY_NAMESPACE)>>}

\* The options written one after the other, with commas between them (or
\* none) and a comma at the end (or none).
AttrTokens(opts, commas, trailing) ==
    Concat([i \in 1..Len(opts) |->
               opts[i] \o (IF (i < Len(opts) /\ commas) \/ (i = Len(opts) /\ trailing)
                           THEN <<Punct(",")>> ELSE <<>>)], Len(opts))

\* a1, ..., an with or without a comma at the end
ArgTokens(args, trailing) ==
    Concat([i \in 1..Len(args) |->
               <<Literal(args[i])>> \o (IF i < Len(args) \/ trailing
                                        THEN <<Punct(",")>> ELSE <<>>)], Len(args))

PathTokens(path) ==
    (IF path.leading_colon THEN <<Punct("::")>> ELSE <<>>)
    \o Concat([i \in 1..Len(path.segments) |->
                  <<Ident(path.segments[i])>>
                  \o (IF i < Len(path.segments) THEN <<Punct("::")>> ELSE <<>>)],
              Len(path.segments))

\* A call as written: [namespace = X,] Path, then nothing ("bare"), or
\* `, a1, ..., an` ("comma"), or `(a1, ..., an)` ("paren").
CallTokens(site, form) ==
    (IF IsSome(site.namespace)
     THEN <<Ident(KEY_NAMESPACE), Punct("="), Ident(Unwrap(site.namespace)), Punct(",")>>
     ELSE <<>>)
    \o PathTokens(site.path)
    \o (CASE form = "bare" -> <<>>
          [] form = "comma" -> <<Punct(",")>> \o ArgTokens(site.args, site.trailing)
          [] OTHER -> <<Group(ArgTokens(site.args, site.trailing))>>)

CallSites ==
    {[namespace |-> ns, path |-> [leading_colon |-> lc, segments |-> segments],
      args |-> args, trailing |-> trailing] :
        ns \in ExpandNs, lc \in BOOLEAN, segments \in CallPaths,
        args \in CallArgLists, trailing \in BOOLEAN}

DefInterfaceArgs_default == [gen_caller |-> FALSE, namespace |-> None]
ImplInterfaceArgs_default == [namespace |-> None]

ParserInputs ==
    {[macro |-> m, input |-> [opts |-> opts, commas |-> commas, trailing |-> trailing],
      tokens |-> AttrTokens(opts, commas, trailing), out |-> <<>>] :
        m \in {"def_interface", "impl_interface"},
        opts \in ItemSeqs(Options, MaxOptions),
        commas \in BOOLEAN, trailing \in BOOLEAN}
    \cup {[macro |-> "call_interface", input |-> [site |-> c[1], form |-> c[2]],
           tokens |-> CallTokens(c[1], c[2]), out |-> <<>>] :
            c \in {x \in CallSites \X {"bare", "comma", "paren"} :
                      x[2] = "bare" => x[1].args = <<>> /\ ~x[1].trailing}}

InitArgs ==
    /\ workspace \in {w \in Workspaces : w.name = "test_simple"}
    /\ defs = {}
    /\ impls = {}
    /\ callsite = None
    /\ phase = "expand"
    /\ diag = ""
    /\ linked = {}
    /\ symtab = <<>>
    /\ result = None
    /\ names = NoNames
    /\ parser \in ParserInputs
    /\ expansion = NoExpansion

\* parse_macro_input!(attr as DefInterfaceArgs)
ParseDefArgs ==
    /\ parser.macro = "def_interface"
    /\ parser.out = <<>>
    /\ parser' = [parser EXCEPT !.out =
          <<DefInterfaceArgs_parse(parser.tokens, DefInterfaceArgs_default)>>]
    /\ UNCHANGED <<workspace, defs, impls, callsite, phase, diag, linked, symtab, result, names, expansion>>

\* parse_macro_input!(attr as ImplInterfaceArgs)
ParseImplArgs ==
    /\ parser.macro = "impl_interface"
    /\ parser.out = <<>>
    /\ parser' = [parser EXCEPT !.out =
          <<ImplInterfaceArgs_parse(parser.tokens, ImplInterfaceArgs_default)>>]
    /\ UNCHANGED <<workspace, defs, impls, callsite, phase, diag, linked, symtab, result, names, expansion>>

\* call_interface!(tokens)
CallMacro ==
    /\ parser.macro = "call_interface"
    /\ parser.out = <<>>
    /\ parser' = [parser EXCEPT !.out = <<call_interface_macro(parser.tokens)>>]
    /\ UNCHANGED <<workspace, defs, impls, callsite, phase, diag, linked, symtab, result, names, expansion>>

NextArgs ==
    \/ ParseDefArgs
    \/ ParseImplArgs
    \/ CallMacro

SpecArgs == InitArgs /\ [][NextArgs]_vars

-----------------------------------------------------------------------------
(* Reading a state for the properties.                                      *)

\* The build went through (the compiler accepted the crates).
Built == phase \in {"built", "linked", "ran"}

\* The symbol the documentation gives for namespace N, interface I, method M.
Symbol(N, I, M) ==
    IF N = None THEN "__" \o I \o "_" \o M
    ELSE "__" \o N[1] \o "_" \o I \o "_" \o M

\* The trait as written, of a def expansion.
TraitOf(d) == CHOOSE t \in workspace.traits : TraitKey(t) = d.key

\* The last segment of the trait path an impl block is written with.
ImplTraitName(im) == im.ast.trait_[1][Len(im.ast.trait_[1])]

\* The call of the binary crate: the def expansion it resolves to, the method
\* it names and the arguments it passes.
TheCall == callsite[1]
CalledDef == CHOOSE d \in CallTargets(defs, TheCall) : TRUE
CalledMethod ==
    IF TheCall.kind = "macro"
    THEN TheCall.call.path.segments[Len(TheCall.call.path.segments)]
    ELSE TheCall.fn
CalledArgs == IF TheCall.kind = "macro" THEN TheCall.call.args ELSE TheCall.args

\* Some expanded impl block of the trait of d defines method m.
Overridden(d, m) ==
    \E im \in impls : /\ im.refers = d.key
                      /\ \E i \in 1..Len(im.ast.items) :
                            /\ im.ast.items[i].kind = "Fn"
                            /\ im.ast.items[i].ident = m

\* The methods the impl blocks of the trait of d define, as written.
Overrides(d) ==
    LET items == {it \in UNION {SeqToSet(im.ast.items) :
                                   im \in {x \in impls : x.refers = d.key}} :
                     it.kind = "Fn"}
    IN [m \in {it.ident : it \in items} |-> CHOOSE it \in items : it.ident = m]

\* What the called method gives when the trait and its impl are read as
\* written, with the arguments in their written order.
Expected ==
    SourceCall([mode |-> "source", trait |-> TraitOf(CalledDef),
                overrides |-> Overrides(CalledDef)],
               CalledMethod, CalledArgs, Fuel)

-----------------------------------------------------------------------------
(* The properties.                                                          *)

\* C1: for every optional namespace N, interface name I and method name M,
\* the extern declaration def_interface emits, the export name impl_interface
\* emits (I being the last segment of the implemented trait path) and the
\* callee call_interface emits (I and M being the last two segments of the
\* call path) are the one symbol __N_I_M, or __I_M when N is absent.
C1_SameSymbol ==
    /\ \A d \in defs : \A i \in 1..Len(d.out.mod.externs) :
          d.out.mod.externs[i].sig.ident =
              Symbol(d.arg.namespace, d.out.trait.ident,
                     MethodNames(TraitOf(d).items)[i])
    /\ \A im \in impls : \A i \in 1..Len(im.out.items) :
          IsSome(im.out.items[i].export) =>
              im.out.items[i].export[1].name =
                  Symbol(im.arg.namespace, ImplTraitName(im), im.out.items[i].ident)
    /\ (IsSome(callsite) /\ TheCall.kind = "macro") =>
          LET p == TheCall.call.path.segments
          IN TheCall.out.fn = Symbol(TheCall.call.namespace, p[Len(p) - 1], p[Len(p)])

\* A namespaced definition, implementation and call of one method have met:
\* the program ran and the call reached the exported function.
C1_Witness ==
    /\ phase = "ran"
    /\ TheCall.kind = "macro"
    /\ TheCall.call.namespace = Some("A_NS")
    /\ \E d \in defs, im \in impls :
          /\ im.refers = d.key
          /\ d.arg.namespace = Some("A_NS")
          /\ im.arg.namespace = Some("A_NS")
          /\ CalledDef = d
          /\ symtab[TheCall.out.fn].kind = "export"

\* C2: symbol synthesis is injective: two triples (namespace or absent,
\* interface name, method name) that differ never get the same symbol.
C2_Injective ==
    (names.done /\ names.a # names.b) => names.sa # names.sb

\* Two different triples with one symbol: the interface A_B without a
\* namespace and the interface B in the namespace A, method c.
C2_Collision ==
    /\ names.done
    /\ names.a = <<[ns |-> None, trait |-> "A_B", fn |-> "c"]>>
    /\ names.b = <<[ns |-> Some("A"), trait |-> "B", fn |-> "c"]>>
    /\ names.sa = "__A_B_c"
    /\ names.sb = "__A_B_c"

\* C3: round trip.  For an interface without default bodies, defined in one
\* unit and fully implemented in another, a call_interface call of method M
\* with arguments A returns exactly what the implementation's body of M
\* computes for A, the arguments in their written order; compute(10, 5) of
\* SimpleImpl (a * b + 10) gives 60.
C3_RoundTrip ==
    (/\ phase = "ran"
     /\ ~workspace.weak_default
     /\ TheCall.kind = "macro"
     /\ \E im \in impls : im.refers = CalledDef.key) =>
        /\ result = Some(Expected)
        /\ Expected.t = "int"
        /\ (/\ \E im \in impls : im.ast = SimpleImpl.ast
            /\ CalledMethod = "compute"
            /\ CalledArgs = <<IntVal(10), IntVal(5)>>) => result = Some(IntVal(60))

\* compute(10, 5) was called through call_interface and SimpleImpl answered.
C3_Witness ==
    /\ phase = "ran"
    /\ TheCall.kind = "macro"
    /\ \E im \in impls : im.ast = SimpleImpl.ast
    /\ CalledMethod = "compute"
    /\ CalledArgs = <<IntVal(10), IntVal(5)>>
    /\ result = Some(IntVal(60))

\* C4: namespace isolation.  Two interfaces of the same name with the same
\* method names and different namespaces, each implemented and called under
\* its own namespace in one program: a call_interface call written with the
\* namespace of its interface resolves to that interface's declaration, and
\* every call, through call_interface or through a forwarding function,
\* gives what the implementation of its own interface computes: qux() is 1
\* under A_NS (mod a) and 2 under B_NS (mod b).
C4_NamespaceIsolation ==
    workspace.name = "test_crate_interface" =>
        /\ \A d \in defs :
              (/\ IsSome(callsite)
               /\ TheCall.kind = "macro"
               /\ TheCall.call.namespace = d.arg.namespace
               /\ TheCall.call.path.segments = d.key \o <<"qux">>)
              => CallTargets(defs, TheCall) = {d}
        /\ (/\ phase = "ran"
            /\ \A d1 \in defs, d2 \in defs :
                  d1 # d2 => d1.arg.namespace # d2.arg.namespace) =>
              /\ result = Some(Expected)
              /\ (\A d \in defs : d.arg.namespace =
                     (IF d.key[1] = "a" THEN Some("A_NS") ELSE Some("B_NS")))
                 => result = Some(IntVal(IF CalledDef.arg.namespace = Some("A_NS")
                                         THEN 1 ELSE 2))

\* Both interfaces are defined, implemented and linked, each under its own
\* namespace, and the forwarding function of mod b gave 2.
C4_Witness ==
    /\ phase = "ran"
    /\ workspace.name = "test_crate_interface"
    /\ Cardinality(defs) = 2
    /\ Cardinality(impls) = 2
    /\ \A d \in defs : d.arg.namespace =
          (IF d.key[1] = "a" THEN Some("A_NS") ELSE Some("B_NS"))
    /\ TheCall.kind = "fn"
    /\ TheCall.module = <<"b">>
    /\ result = Some(IntVal(2))

\* C5: an implementation expanded with namespace option P for an interface
\* defined with namespace option D (either may be absent) is accepted by the
\* build only when P equals D.
C5_NamespaceMustMatch ==
    \A im \in impls : \A d \in DefOf(defs, im.refers) :
        Built => im.arg.namespace = d.arg.namespace

\* A namespaced definition met an implementation without a namespace, and
\* the build rejected it for the guard constant it does not give.
C5_Witness ==
    /\ phase = "failed"
    /\ diag = "missing trait items"
    /\ Cardinality(impls) = 1
    /\ \E im \in impls : \E d \in DefOf(defs, im.refers) :
          /\ im.ast = SimpleImpl.ast
          /\ d.arg.namespace = Some("A_NS")
          /\ im.arg.namespace = None

\* C6: an implementation that names the interface through an alias (a trait
\* identifier different from the one def_interface saw) never builds, so no
\* symbol is ever exported under the alias name.
C6_AliasNeverBuilds ==
    \A im \in impls : \A d \in DefOf(defs, im.refers) :
        ImplTraitName(im) # d.out.trait.ident =>
            /\ ~Built
            /\ \A i \in 1..Len(im.out.items) :
                  IsSome(im.out.items[i].export) =>
                      im.out.items[i].export[1].name \notin DOMAIN symtab

\* AliasImpl (impl SimpleIf2 for AliasImpl), alone and under the namespace of
\* the definition, was rejected for its alias guard constant.
C6_Witness ==
    /\ phase = "failed"
    /\ diag = "not a member of trait"
    /\ Cardinality(impls) = 1
    /\ \E im \in impls : \E d \in DefOf(defs, im.refers) :
          /\ im.ast = AliasImpl.ast
          /\ im.arg.namespace = d.arg.namespace

\* C7: weak/strong precedence.  With the weak-default overlay on, the symbol
\* of a method with a default body is bound to the default when no linked
\* implementation defines the method and to the implementation's function
\* when one does, method by method; a call returns accordingly (base_value()
\* is 500 with SelfRefFullImpl, 100 without an override).
C7_WeakStrongPrecedence ==
    (workspace.weak_default /\ phase \in {"linked", "ran"}) =>
        /\ \A d \in defs : \A i \in 1..Len(TraitOf(d).items) :
              LET it == TraitOf(d).items[i]
                  sym == Symbol(d.arg.namespace, d.out.trait.ident, it.ident)
              IN (it.kind = "Fn" /\ IsSome(it.default)) =>
                    /\ sym \in DOMAIN symtab
                    /\ symtab[sym].kind =
                          IF Overridden(d, it.ident) THEN "export" ELSE "default"
        /\ (phase = "ran" /\ CalledMethod \in {"base_value", "transform"}) =>
              result = Some(Expected)
        /\ (phase = "ran" /\ CalledMethod = "base_value") =>
              result = Some(IntVal(IF Overridden(CalledDef, "base_value")
                                   THEN 500 ELSE 100))

\* SelfRefFullImpl is linked: base_value is its override and answered 500,
\* while derived_value, which it does not define, stays the default.
C7_Witness ==
    /\ phase = "ran"
    /\ \E im \in impls : im.ast = SelfRefFullImpl.ast
    /\ CalledMethod = "base_value"
    /\ result = Some(IntVal(500))
    /\ symtab[Symbol(CalledDef.arg.namespace, "SelfRefIf", "derived_value")].kind
          = "default"

\* All the orders in which the units of S can be handed to the linker.
RECURSIVE Orders(_)
Orders(S) ==
    IF S = {} THEN {<<>>}
    ELSE UNION {{<<u>> \o o : o \in Orders(S \ {u})} : u \in S}

\* The symbol table after the units of order have been linked in that order.
RECURSIVE link_units(_, _)
link_units(tab, order) ==
    IF order = <<>> THEN Ok(tab)
    ELSE LET r == link_definitions(tab, UnitDefinitions(defs, impls, Head(order)))
         IN IF ~r.ok THEN r ELSE link_units(r.val, Tail(order))

\* C8: the binding of a defaulted method does not depend on the order in
\* which the defining unit (weak default) and the implementing unit (strong
\* override) are linked: every order of adding the same units gives the
\* same resolved definition for every symbol.
C8_LinkOrderIndependent ==
    Built => \A order \in Orders(linked) : link_units(<<>>, order) = Ok(symtab)

\* A weak default and the override of the same symbol have both been linked,
\* and the override is the one bound.
C8_Witness ==
    /\ phase = "linked"
    /\ Cardinality(linked) >= 2
    /\ \E d \in defs :
          \E w \in weak_definitions(DefUnit(d), d.out.trait.items) :
              symtab[w.name].kind = "export"

\* C9: Self-reference late binding.  A default body that refers to a sibling
\* method through Self::method, called directly or first captured as a value,
\* compiles after the rewriting and runs the implementation's override of
\* the sibling when one is linked and the sibling's default otherwise:
\* derived_value() is 1000 with base_value overridden to 500 and 200 with
\* the default 100; call_via_ref(5) is 50 with transform overridden and 6
\* with the default.
C9_SelfLateBinding ==
    /\ diag \notin {"cannot use Self from outer item",
                    "cannot find function in module"}
    /\ (phase = "ran" /\ workspace.weak_default) =>
          /\ result = Some(Expected)
          /\ CalledMethod = "derived_value" =>
                result = Some(IntVal(IF Overridden(CalledDef, "base_value")
                                     THEN 1000 ELSE 200))
          /\ (CalledMethod = "call_via_ref" /\ CalledArgs = <<IntVal(5)>>) =>
                result = Some(IntVal(IF Overridden(CalledDef, "transform")
                                     THEN 50 ELSE 6))

\* call_via_ref(5) ran with SelfRefFullImpl linked under a namespace and the
\* captured Self::transform was the override.
C9_Witness ==
    /\ phase = "ran"
    /\ \E im \in impls : im.ast = SelfRefFullImpl.ast
    /\ CalledDef.arg.namespace = Some("A_NS")
    /\ CalledMethod = "call_via_ref"
    /\ CalledArgs = <<IntVal(5)>>
    /\ result = Some(IntVal(50))

\* The call_interface form of the plain call cs of a forwarding function of d.
MacroForm(d, cs) ==
    call_interface([namespace |-> d.arg.namespace,
                    path |-> [leading_colon |-> FALSE,
                              segments |-> d.key \o <<cs.fn>>],
                    args |-> cs.args])

\* C10: forwarding-function equivalence.  With gen_caller, the generated
\* plain function M(A) and the call_interface form for M with A call the
\* same symbol in the same module with the same arguments in the same order
\* and return the same result, with or without a namespace.
C10_ForwarderEquivalence ==
    (IsSome(callsite) /\ TheCall.kind = "fn") =>
        \A d \in CallTargets(defs, TheCall) :
            LET m == MacroForm(d, TheCall)
            IN /\ m.ok
               /\ Callee(defs, TheCall) = [sym |-> m.val.fn, args |-> m.val.args]
               /\ d.out.trait.module \o <<CallerOf(d, TheCall).mod>> = m.val.path
               /\ phase = "ran" =>
                     result = Some(ExecSymbol(World, m.val.fn, m.val.args, Fuel))

\* The forwarding function compute(10, 5) of a namespaced SimpleIf ran and
\* gave what SimpleImpl computes.
C10_Witness ==
    /\ phase = "ran"
    /\ TheCall.kind = "fn"
    /\ TheCall.fn = "compute"
    /\ TheCall.args = <<IntVal(10), IntVal(5)>>
    /\ CalledDef.arg.namespace = Some("A_NS")
    /\ \E im \in impls : im.ast = SimpleImpl.ast
    /\ result = Some(IntVal(60))

\* The definitions of the symbol the call reaches, over all units of the
\* program: exported functions of impl_interface and weak defaults.
Providers ==
    {d \in UNION {UnitDefinitions(defs, impls, u) : u \in Units(defs, impls)} :
        d.name = Callee(defs, TheCall).sym}

\* Interfaces are told apart by their symbols: no two definitions share
\* both name and namespace.
DistinctInterfaces ==
    \A d1 \in defs, d2 \in defs :
        d1 # d2 => \/ d1.arg.namespace # d2.arg.namespace
                   \/ d1.out.trait.ident # d2.out.trait.ident

\* The called method has a default body in its trait.
HasDefault(d, m) ==
    \E i \in 1..Len(TraitOf(d).items) :
        /\ TraitOf(d).items[i].kind = "Fn"
        /\ TraitOf(d).items[i].ident = m
        /\ IsSome(TraitOf(d).items[i].default)

StrongDefinitions(units, sym) ==
    {d \in UNION {UnitDefinitions(defs, impls, u) : u \in units} :
        d.name = sym /\ d.linkage # "weak"}

\* The symbols the impl blocks of the program export.
ExportedNames ==
    {d.name : d \in UNION {UnitDefinitions(defs, impls, ImplUnit(im)) : im \in impls}}

\* C19: for every synthesized symbol, at most one non-weak definition exists
\* in a program that builds.  Two impl_interface blocks, for two different
\* target types, that implement the same method of the same interface under
\* the same namespace never link together: the units the linker has taken
\* hold at most one non-weak definition of each symbol, no linked program
\* has two such blocks, and taking the second ends the build with a
\* duplicate symbol instead of silently picking one of them.
C19_OneStrongDefinition ==
    /\ \A sym \in ExportedNames : Cardinality(StrongDefinitions(linked, sym)) <= 1
    /\ phase \in {"linked", "ran"} =>
          /\ \A sym \in ExportedNames :
                Cardinality(StrongDefinitions(Units(defs, impls), sym)) <= 1
          /\ \A im1 \in impls, im2 \in impls :
                (/\ im1.out.self_ty # im2.out.self_ty
                 /\ ImplTraitName(im1) = ImplTraitName(im2)
                 /\ im1.arg.namespace = im2.arg.namespace) =>
                    \A i \in 1..Len(im1.ast.items), j \in 1..Len(im2.ast.items) :
                        im1.ast.items[i].kind = "Fn" /\ im2.ast.items[j].kind = "Fn"
                        => im1.ast.items[i].ident # im2.ast.items[j].ident
    /\ (phase = "failed" /\ diag = "duplicate symbol") =>
          \E sym \in ExportedNames :
              Cardinality(StrongDefinitions(Units(defs, impls), sym)) >= 2

\* SimpleImpl and SubImpl both implement SimpleIf under the namespace of its
\* definition; the crates compiled, one of the two was linked, and the link
\* failed with a duplicate symbol.
C19_Witness ==
    /\ phase = "failed"
    /\ diag = "duplicate symbol"
    /\ {im.ast : im \in impls} = {SimpleImpl.ast, SubImpl.ast}
    /\ \A im \in impls : \A d \in defs : im.arg.namespace = d.arg.namespace
    /\ \E sym \in ExportedNames : Cardinality(StrongDefinitions(linked, sym)) = 1

\* The original method body run on its own, as a direct call Type::method
\* runs it.
DirectCall(method, args) ==
    EvalStmts([mode |-> "linked", symtab |-> <<>>, impls |-> {}, proxies |-> <<>>],
              method.stmts, bind_args(method.sig.inputs, args), 1)

\* C27: for every method of an impl_interface block, the rewritten method
\* keeps its original signature and original statements, so calling it
\* directly as Type::method(args) gives the same result as before the
\* rewrite, and the exported function under the synthesized symbol
\* forwards its parameters in order to Type::method and returns its
\* result; a call through the symbol therefore equals the direct call and
\* involves no recursion between the two.
C27_ExportForwardsToMethod ==
    \A im \in impls : \A i \in 1..Len(im.ast.items) :
        LET src == im.ast.items[i]
            out == im.out.items[i]
            ex == Unwrap(out.export)
        IN src.kind = "Fn" =>
              /\ out.ident = src.ident /\ out.sig = src.sig /\ out.stmts = src.stmts
              /\ IsSome(out.export)
              /\ ex.name = Symbol(im.arg.namespace, ImplTraitName(im), src.ident)
              /\ ex.sig.inputs = src.sig.inputs /\ ex.sig.output = src.sig.output
              /\ ex.call.ty = im.ast.self_ty.segs[1]
              /\ ex.call.fn = src.ident
              /\ ex.call.args = [j \in 1..Len(src.sig.inputs) |-> src.sig.inputs[j].name]
              /\ (phase \in {"linked", "ran"} /\ symtab[ex.name].kind = "export") =>
                    \A a \in ArgLists(Len(src.sig.inputs)) :
                       LET args == [j \in 1..Len(a) |-> IntVal(a[j])]
                       IN /\ DirectCall(src, args).t = "int"
                          /\ DirectCall(out, args) = DirectCall(src, args)
                          /\ ExecSymbol(World, ex.name, args, 1) = DirectCall(src, args)

\* SubImpl (compute is a * 2 - b) is linked and compute(10, 5), called
\* through the symbol, gave 15 as the direct call does.
C27_Witness ==
    /\ phase = "ran"
    /\ \E im \in impls : im.ast = SubImpl.ast
    /\ CalledMethod = "compute"
    /\ CalledArgs = <<IntVal(10), IntVal(5)>>
    /\ result = Some(IntVal(15))
    /\ DirectCall(SubImpl.ast.items[2], <<IntVal(10), IntVal(5)>>) = IntVal(15)

-----------------------------------------------------------------------------
(* The expansions on their own.                                             *)

\* Some method of the declaration carries generic parameters or a receiver.
HasInvalidMethod(ast) ==
    \E i \in 1..Len(ast.items) :
        /\ ast.items[i].kind = "Fn"
        /\ \/ ast.items[i].sig.generics
           \/ \E j \in 1..Len(ast.items[i].sig.inputs) :
                 ast.items[i].sig.inputs[j].kind = "Receiver"

\* The applications of the attribute macros made so far.
AttributeOuts ==
    IF expansion.macro \in {"def_interface", "impl_interface", "lib.rs impl_interface"}
    THEN {expansion.outs[i] : i \in 1..Len(expansion.outs)}
    ELSE {}

\* C11: a method signature that carries generic parameters or a receiver
\* (self, &self, &mut self) always makes the expansion fail with an error,
\* in def_interface and in impl_interface alike: no application of either
\* macro to a trait or an impl block that contains such a method gives an
\* expansion output.
C11_InvalidSignatureRejected ==
    \A out \in AttributeOuts :
        HasInvalidMethod(expansion.input.ast) => ~out.ok /\ out.err # ""

\* The impl_interface of lib.rs has expanded an impl block whose method takes
\* &self: the exported function makes a value of the target type and calls
\* the method on it.
C11_ReceiverAccepted ==
    /\ expansion.macro = "lib.rs impl_interface"
    /\ expansion.input.ast.items = <<ImplFn(Sig("measure", <<Receiver("&self"), U32("a")>>, "u32"), <<Lit(1)>>)>>
    /\ Len(expansion.outs) >= 1
    /\ expansion.outs[1].ok
    /\ Unwrap(expansion.outs[1].val.items[1].export).call.has_self
    /\ Unwrap(expansion.outs[1].val.items[1].export).sig.inputs = <<U32("a")>>

\* The methods of a trait that have a default body, by position.
WithDefault(ast) ==
    {i \in 1..Len(ast.items) :
        ast.items[i].kind = "Fn" /\ IsSome(ast.items[i].default)}

\* The applications of def_interface made so far without the weak_default
\* feature.
OverlayOffOuts ==
    IF expansion.macro = "def_interface" /\ ~expansion.input.weak_default
    THEN {expansion.outs[i] : i \in 1..Len(expansion.outs)}
    ELSE {}

\* C13 as stated: with the weak-default overlay disabled, def_interface on
\* an interface in which any method has a default body returns an error that
\* names that method and emits no expansion; it succeeds only for interfaces
\* whose methods all lack a body.
C13_AsStated ==
    \A out \in OverlayOffOuts :
        LET ast == expansion.input.ast
        IN /\ WithDefault(ast) # {} =>
                 /\ ~out.ok
                 /\ \E i \in WithDefault(ast) :
                       out.err = weak_default_required_error(ast.items[i])
           /\ out.ok => WithDefault(ast) = {}

\* C13: with the weak-default overlay disabled, def_interface on an
\* interface in which any method has a default body always returns an
\* error and emits no expansion, and it succeeds only for interfaces whose
\* methods all lack a body.  The error names the first method that has a
\* default body when the interface has no generic parameters and every
\* method up to and including that one passes the signature validation
\* (and, when forwarding functions are asked for, every method before it
\* has identifier arguments only); otherwise it is the error of the generic
\* parameters, of the first invalid signature or of the first argument that
\* is no identifier.
C13_DefaultNeedsWeak ==
    \A out \in OverlayOffOuts :
        LET ast == expansion.input.ast
            first == CHOOSE i \in WithDefault(ast) : \A j \in WithDefault(ast) : i <= j
        IN /\ WithDefault(ast) # {} =>
                 /\ ~out.ok
                 /\ out.err # ""
                 /\ IF /\ ~ast.generics
                       /\ \A j \in 1..first : validate_fn_signature(ast.items[j].sig).ok
                       /\ expansion.input.arg.gen_caller =>
                             \A j \in 1..(first - 1) : extract_caller_args(ast.items[j].sig).ok
                    THEN out.err = weak_default_required_error(ast.items[first])
                    ELSE out.err \in
                            {generic_not_allowed_error,
                             "methods with receiver (self) are not allowed in crate_interface",
                             "unexpected pattern in function argument"}
           /\ out.ok => WithDefault(ast) = {}

\* Without the feature, trait ExpandIf { fn get_value() -> u32;
\* fn compute(a: u32, b: u32) -> u32 { 1 } } was refused with the error that
\* names compute.
C13_Witness ==
    /\ expansion.macro = "def_interface"
    /\ ~expansion.input.weak_default
    /\ ~expansion.input.ast.generics
    /\ expansion.input.ast.items =
          <<TraitFn(Sig("get_value", <<>>, "u32"), None),
            TraitFn(Sig("compute", <<U32("a"), U32("b")>>, "u32"),
                    Some(Block(<<Lit(1)>>)))>>
    /\ Len(expansion.outs) >= 1
    /\ ~expansion.outs[1].ok
    /\ expansion.outs[1].err =
          "default implementation of method compute will not work as expected and therefore is not allowed without the weak_default feature"

\* Without the feature, a trait whose generic method convert comes before a
\* method with a default body was refused with the error of the generic
\* parameters, which names no method.
C13_OtherError ==
    /\ expansion.macro = "def_interface"
    /\ ~expansion.input.weak_default
    /\ ~expansion.input.ast.generics
    /\ Len(expansion.input.ast.items) = 2
    /\ expansion.input.ast.items[1].sig.generics
    /\ ~IsSome(expansion.input.ast.items[1].default)
    /\ IsSome(expansion.input.ast.items[2].default)
    /\ Len(expansion.outs) >= 1
    /\ expansion.outs[1] = Err(generic_not_allowed_error)

-----------------------------------------------------------------------------
(* The parsers on their own.                                                *)

\* The macro whose tokens were drawn has been applied.
Parsed(m) == parser.macro = m /\ parser.out # <<>>

\* C14: call_interface given a path with fewer than two segments (a lone
\* identifier) produces a build error and never a rewritten call, whatever
\* the namespace, the arguments and the form they are written in.
C14_ShortPathRejected ==
    (Parsed("call_interface") /\ Len(parser.input.site.path.segments) < 2) =>
        /\ ~parser.out[1].ok
        /\ parser.out[1].err # ""
        /\ parser.out[1].val = <<>>

\* call_interface!(get_value, 10, 5) ended in the macro's panic.
C14_Witness ==
    /\ Parsed("call_interface")
    /\ parser.tokens = <<Ident("get_value"), Punct(","), Literal(10), Punct(","), Literal(5)>>
    /\ parser.out[1] = Err("panicked: unwrap on None")

\* The option names a macro knows.
KnownKeys(m) ==
    IF m = "def_interface" THEN {KEY_GEN_CALLER, KEY_NAMESPACE} ELSE {KEY_NAMESPACE}

\* The name an option is written with.
Key(opt) == opt[1].s

\* An attribute macro's option list was drawn and parsed.
ParsedOptions == Parsed("def_interface") \/ Parsed("impl_interface")

\* The options before the i-th are known to macro m, complete, different
\* from one another and followed by their commas: the parser gets to the
\* i-th option.
CleanPrefix(m, i) ==
    /\ i = 1 \/ parser.input.commas
    /\ \A j \in 1..(i - 1) :
          /\ Key(parser.input.opts[j]) \in KnownKeys(m)
          /\ Key(parser.input.opts[j]) = KEY_NAMESPACE => Len(parser.input.opts[j]) = 3
          /\ \A k \in 1..(j - 1) : Key(parser.input.opts[k]) # Key(parser.input.opts[j])

\* C15: option parsing rejects every unknown option with an error naming
\* that option token.  An option list that holds an identifier other than
\* gen_caller or namespace (def_interface), or other than namespace
\* (impl_interface, gen_caller included), yields an error and no parsed
\* configuration, and when the parser gets to such an option the error is
\* "unknown argument: " followed by that identifier.
C15_UnknownOptionRejected ==
    ParsedOptions =>
        LET opts == parser.input.opts
            out == parser.out[1]
        IN \A i \in 1..Len(opts) :
              Key(opts[i]) \notin KnownKeys(parser.macro) =>
                 /\ ~out.ok
                 /\ out.val = <<>>
                 /\ CleanPrefix(parser.macro, i) =>
                       out.err = "unknown argument: " \o Key(opts[i])

\* #[impl_interface(namespace = A_NS, gen_caller)] was refused with the error
\* that names gen_caller.
C15_Witness ==
    /\ Parsed("impl_interface")
    /\ parser.tokens = <<Ident("namespace"), Punct("="), Ident("A_NS"), Punct(","), Ident("gen_caller")>>
    /\ parser.out[1] = Err("unknown argument: gen_caller")

\* C16: option parsing rejects every repeated option with an error naming
\* the repeated token.  An option list with a second gen_caller or a second
\* namespace = X (whether or not X is the same) yields an error and no parsed
\* configuration, and when the parser gets to the repetition the error is
\* "duplicate argument: " followed by the option's name.
C16_DuplicateOptionRejected ==
    ParsedOptions =>
        LET opts == parser.input.opts
            out == parser.out[1]
        IN \A i \in 1..Len(opts) :
              (\E j \in 1..(i - 1) : Key(opts[j]) = Key(opts[i])) =>
                 /\ ~out.ok
                 /\ out.val = <<>>
                 /\ (CleanPrefix(parser.macro, i)
                     /\ Key(opts[i]) \in KnownKeys(parser.macro)) =>
                       out.err = "duplicate argument: " \o Key(opts[i])

\* #[def_interface(namespace = A_NS, gen_caller, namespace = A_NS)] was
\* refused with the error that names namespace.
C16_Witness ==
    /\ Parsed("def_interface")
    /\ parser.tokens = <<Ident("namespace"), Punct("="), Ident("A_NS"), Punct(","), Ident("gen_caller"), Punct(","), Ident("namespace"), Punct("="), Ident("A_NS")>>
    /\ parser.out[1] = Err("duplicate argument: namespace")

\* The other way of writing the arguments of a call.
OtherForm(form) == IF form = "paren" THEN "comma" ELSE "paren"

\* C17: the two call-site forms are equivalent.  For every path and argument
\* list, call_interface given Path, a1, ..., an and given Path(a1, ..., an)
\* produce the same rewritten call, with the arguments in their written
\* order; a path followed by nothing or by a lone comma produces a call with
\* an empty argument list; and a leading namespace = X, changes nothing but
\* the symbol name.
C17_CallFormsEquivalent ==
    Parsed("call_interface") =>
        LET site == parser.input.site
            form == parser.input.form
            out == parser.out[1]
            n == Len(site.path.segments)
            plain == call_interface_macro(
                        CallTokens([site EXCEPT !.namespace = None], form))
        IN /\ out = call_interface_macro(CallTokens(site, OtherForm(form)))
           /\ out.ok <=> n >= 2
           /\ out.ok =>
                 /\ out.val.args =
                       IF form = "bare" THEN <<>>
                       ELSE [i \in 1..Len(site.args) |-> IntVal(site.args[i])]
                 /\ out.val.fn = Symbol(site.namespace, site.path.segments[n - 1],
                                        site.path.segments[n])
                 /\ plain.ok
                 /\ out.val = [plain.val EXCEPT !.fn = out.val.fn]

\* call_interface!(namespace = A_NS, m::ExpandIf::compute(10, 5)) was
\* rewritten to m::__ExpandIf_mod::__A_NS_ExpandIf_compute(10, 5).
C17_Witness ==
    /\ Parsed("call_interface")
    /\ parser.input.form = "paren"
    /\ parser.tokens =
          <<Ident("namespace"), Punct("="), Ident("A_NS"), Punct(","),
            Ident("m"), Punct("::"), Ident("ExpandIf"), Punct("::"), Ident("compute"),
            Group(<<Literal(10), Punct(","), Literal(5)>>)>>
    /\ parser.out[1].ok
    /\ parser.out[1].val.path = <<"m", "__ExpandIf_mod">>
    /\ parser.out[1].val.fn = "__A_NS_ExpandIf_compute"
    /\ parser.out[1].val.args = <<IntVal(10), IntVal(5)>>

-----------------------------------------------------------------------------
(* impl_interface on declarations that are no implementation of an         *)
(* interface for a type.                                                    *)

\* The applications of impl_interface made so far, by either source file.
ImplOuts ==
    IF expansion.macro \in {"impl_interface", "lib.rs impl_interface"}
    THEN {expansion.outs[i] : i \in 1..Len(expansion.outs)}
    ELSE {}

\* The target type is one plain type name.
PlainTarget(ast) == ast.self_ty.kind = "Path" /\ Len(ast.self_ty.segs) = 1

\* C18: impl_interface applied to a declaration that does not name exactly
\* one interface and exactly one concrete target type (an inherent impl
\* without a trait, or a self type that is not a single plain type name)
\* always ends in the build error "expect a trait implementation", never in
\* generated code and never in any other kind of failure.
C18_ExpectTraitImplementation ==
    \A out \in ImplOuts :
        (~IsSome(expansion.input.ast.trait_) \/ ~PlainTarget(expansion.input.ast)) =>
            out = Err("expect a trait implementation")

\* impl ExpandIf for m::ExpandImpl { fn get_value() -> u32 { 1 } } made
\* impl_interface panic: the target type is a path, but no single identifier.
C18_Panicked ==
    /\ expansion.macro = "impl_interface"
    /\ expansion.input.ast.trait_ = Some(<<"ExpandIf">>)
    /\ expansion.input.ast.self_ty = [kind |-> "Path", segs |-> <<"m", "ExpandImpl">>]
    /\ expansion.input.ast.items = <<ImplFn(Sig("get_value", <<>>, "u32"), <<Lit(1)>>)>>
    /\ Len(expansion.outs) >= 1
    /\ expansion.outs[1] = Err("panicked: unwrap on None")

-----------------------------------------------------------------------------
(* The same macro applied more than once to the same declaration.           *)

\* C20: expansion is deterministic.  def_interface, impl_interface and
\* call_interface applied twice to the same declaration and the same
\* configuration produce identical output, and with it identical symbol
\* names; for def_interface this covers the full emitted text, including the
\* set and the order of the proxy functions generated inside a default body
\* that refers to several sibling methods.
C20_Deterministic ==
    \A i, j \in 1..Len(expansion.outs) : expansion.outs[i] = expansion.outs[j]

\* The proxy functions def_interface put at the head of the weak definition
\* made from the body of the trait's item k, in the n-th application.
ProxyFns(n, k) ==
    Unwrap(expansion.outs[n].val.trait.items[k].default).weak.body.proxy_fns

\* def_interface was applied twice to SumIf with the weak_default feature:
\* the body of sum_value got the proxies of base_value and required_id in
\* one order the first time and in the other order the second time.
C20_ProxyOrderDiffers ==
    /\ expansion.macro = "def_interface"
    /\ expansion.input.ast = SumIf
    /\ expansion.input.weak_default
    /\ Len(expansion.outs) >= 2
    /\ expansion.outs[1].ok /\ expansion.outs[2].ok
    /\ Len(ProxyFns(1, 3)) = 2
    /\ ProxyFns(2, 3) = Reverse(ProxyFns(1, 3))
    /\ ProxyFns(2, 3) # ProxyFns(1, 3)
    /\ expansion.outs[1].val.mod = expansion.outs[2].val.mod

-----------------------------------------------------------------------------
(* What a successful def_interface emits.                                   *)

\* The applications of def_interface made so far that gave an expansion.
DefOks ==
    IF expansion.macro = "def_interface"
    THEN {expansion.outs[i].val : i \in {k \in 1..Len(expansion.outs) :
                                            expansion.outs[k].ok}}
    ELSE {}

\* The methods of a trait as written, in order.
Methods(ast) == SelectSeq(ast.items, LAMBDA it : it.kind = "Fn")

\* C22: a successful def_interface expansion declares exactly one body-less
\* external function per method of the interface, no more and no fewer,
\* each named by the synthesized symbol and with the method's parameter
\* list and return type unchanged, all inside the module __{interface}_mod,
\* whose name does not depend on the namespace option.
C22_OneExternPerMethod ==
    \A out \in DefOks :
        LET ast == expansion.input.ast
            ns == expansion.input.arg.namespace
            fns == Methods(ast)
        IN /\ Len(out.mod.externs) = Len(fns)
           /\ \A i \in 1..Len(fns) :
                 /\ DOMAIN out.mod.externs[i] = {"vis", "sig"}
                 /\ out.mod.externs[i].sig.ident
                        = Symbol(ns, ast.ident, fns[i].sig.ident)
                 /\ out.mod.externs[i].sig.inputs = fns[i].sig.inputs
                 /\ out.mod.externs[i].sig.output = fns[i].sig.output
                 /\ out.mod.externs[i].sig.generics = fns[i].sig.generics
           /\ out.mod.name = "__" \o ast.ident \o "_mod"
           /\ out.mod.vis = ast.vis

\* With the weak_default feature and namespace A_NS, trait SumIf (two of
\* its three methods have a default body) was expanded: three declarations
\* in __SumIf_mod.
C22_Witness ==
    /\ expansion.macro = "def_interface"
    /\ expansion.input.ast = SumIf
    /\ expansion.input.weak_default
    /\ expansion.input.arg.namespace = Some("A_NS")
    /\ Len(expansion.outs) >= 1
    /\ expansion.outs[1].ok
    /\ expansion.outs[1].val.mod.name = "__SumIf_mod"
    /\ Len(expansion.outs[1].val.mod.externs) = 3
    /\ expansion.outs[1].val.mod.externs[3].sig.ident = "__A_NS_SumIf_sum_value"

-----------------------------------------------------------------------------
(* What call_interface emits.                                               *)

\* The applications of call_interface made so far.
CallOuts ==
    IF expansion.macro = "call_interface"
    THEN {expansion.outs[i] : i \in 1..Len(expansion.outs)}
    ELSE {}

\* C23: for a call path p1::...::pk::Interface::method (k >= 0),
\* call_interface emits a call to p1::...::pk::__Interface_mod::<symbol>:
\* every prefix segment is kept in its original order, the interface
\* segment is replaced by the module name, the symbol is appended, the
\* given arguments are passed unchanged, and the whole call is wrapped in
\* an unsafe block.
C23_PathRewritten ==
    \A out \in CallOuts :
        LET call == expansion.input.call
            segs == call.path.segments
            n == Len(segs)
        IN n >= 2 =>
              /\ out.ok
              /\ Len(out.val.path) = n - 1
              /\ \A i \in 1..(n - 2) : out.val.path[i] = segs[i]
              /\ out.val.path[n - 1] = "__" \o segs[n - 1] \o "_mod"
              /\ out.val.fn = Symbol(call.namespace, segs[n - 1], segs[n])
              /\ out.val.args = call.args
              /\ out.val.unsafe

\* call_interface!(crate::m::ExpandIf::compute, 10, 5) was rewritten to
\* unsafe { crate::m::__ExpandIf_mod::__ExpandIf_compute(10, 5) }.
C23_Witness ==
    /\ expansion.macro = "call_interface"
    /\ expansion.input.call.path.segments = <<"crate", "m", "ExpandIf", "compute">>
    /\ expansion.input.call.namespace = None
    /\ expansion.input.call.args = <<IntVal(10), IntVal(5)>>
    /\ Len(expansion.outs) >= 1
    /\ expansion.outs[1].ok
    /\ expansion.outs[1].val.path = <<"crate", "m", "__ExpandIf_mod">>
    /\ expansion.outs[1].val.fn = "__ExpandIf_compute"
    /\ expansion.outs[1].val.args = <<IntVal(10), IntVal(5)>>

\* C28: def_interface leaves the interface declaration otherwise unchanged:
\* the emitted trait contains every original item in its original order
\* with every signature and every body-less method untouched; the only
\* additions are the alias guard constant (always) and the namespace guard
\* constant (exactly when a namespace is given), appended after the
\* original items, and the only modification is the replacement of default
\* bodies when the weak overlay is enabled.
C28_TraitOtherwiseUnchanged ==
    \A out \in DefOks :
        LET ast == expansion.input.ast
            ns == expansion.input.arg.namespace
            n == Len(ast.items)
            guards == Len(out.trait.items) - n
        IN /\ [out.trait EXCEPT !.items = ast.items] = ast
           /\ guards = IF ns = None THEN 1 ELSE 2
           /\ \A i \in 1..n :
                 IF /\ expansion.input.weak_default
                    /\ ast.items[i].kind = "Fn"
                    /\ IsSome(ast.items[i].default)
                 THEN /\ [out.trait.items[i] EXCEPT !.default = ast.items[i].default]
                          = ast.items[i]
                      /\ IsSome(out.trait.items[i].default)
                      /\ out.trait.items[i].default # ast.items[i].default
                 ELSE out.trait.items[i] = ast.items[i]
           /\ out.trait.items[n + 1].kind = "Const"
           /\ out.trait.items[n + 1].ident = "__MustNotAnAlias__" \o ast.ident
           /\ out.trait.items[n + 1].default = Some("()")
           /\ ns # None =>
                 /\ out.trait.items[n + 2].kind = "Const"
                 /\ out.trait.items[n + 2].ident = "__NamespaceGuard__" \o ns[1]
                 /\ out.trait.items[n + 2].default = None

\* With the weak_default feature and namespace A_NS, trait MixIf was
\* expanded: its constant LIMIT is still the second item, its three default
\* bodies are replaced, and the two guards are the fifth and sixth item.
C28_Witness ==
    /\ expansion.macro = "def_interface"
    /\ expansion.input.ast = MixIf
    /\ expansion.input.weak_default
    /\ expansion.input.arg.namespace = Some("A_NS")
    /\ Len(expansion.outs) >= 1
    /\ expansion.outs[1].ok
    /\ Len(expansion.outs[1].val.trait.items) = 6
    /\ expansion.outs[1].val.trait.items[2] = MixIf.items[2]
    /\ expansion.outs[1].val.trait.items[1].default # MixIf.items[1].default
    /\ expansion.outs[1].val.trait.items[5].ident = "__MustNotAnAlias__MixIf"
    /\ expansion.outs[1].val.trait.items[6].ident = "__NamespaceGuard__A_NS"

\* The drawn call with its path written the other way: with a leading ::
\* when it has none, without when it has one.
OtherRoot(call) == [call EXCEPT !.path.leading_colon = ~@]

\* C30: call_interface preserves the root of the call path: a path written
\* with a leading :: (a global path such as
\* ::some_crate::Interface::method) is rewritten to a path that still
\* starts with ::, so a rooted path and an unrooted path of the same
\* segments are never rewritten to the same output.
C30_RootPreserved ==
    \A out \in CallOuts :
        out.ok =>
           /\ out.val.leading_colon = expansion.input.call.path.leading_colon
           /\ call_interface(OtherRoot(expansion.input.call)) # out

\* call_interface!(::m::ExpandIf::compute, 10, 5) was rewritten to
\* unsafe { m::__ExpandIf_mod::__ExpandIf_compute(10, 5) }, which is what
\* call_interface!(m::ExpandIf::compute, 10, 5) is rewritten to.
C30_RootDropped ==
    /\ expansion.macro = "call_interface"
    /\ expansion.input.call.path = [leading_colon |-> TRUE,
                                    segments |-> <<"m", "ExpandIf", "compute">>]
    /\ expansion.input.call.namespace = None
    /\ expansion.input.call.args = <<IntVal(10), IntVal(5)>>
    /\ Len(expansion.outs) >= 1
    /\ expansion.outs[1].ok
    /\ ~expansion.outs[1].val.leading_colon
    /\ expansion.outs[1].val.path = <<"m", "__ExpandIf_mod">>
    /\ expansion.outs[1] = call_interface(OtherRoot(expansion.input.call))

-----------------------------------------------------------------------------
(* Expansions that fail.                                                    *)

\* What the validation says of a signature: generic parameters first, then
\* a receiver.
SigError(sig) ==
    IF sig.generics THEN "generic parameters are not allowed in crate_interface"
    ELSE IF \E i \in 1..Len(sig.inputs) : sig.inputs[i].kind = "Receiver"
    THEN "methods with receiver (self) are not allowed in crate_interface"
    ELSE ""

\* What the extraction of the arguments says of a signature.
PatError(sig) ==
    IF \E i \in 1..Len(sig.inputs) :
          sig.inputs[i].kind = "Typed" /\ sig.inputs[i].pat # "Ident"
    THEN "unexpected pattern in function argument"
    ELSE ""

\* The first error of a sequence of messages, "" when there is none.
FirstError(errs) ==
    IF \A i \in 1..Len(errs) : errs[i] = "" THEN ""
    ELSE errs[CHOOSE i \in 1..Len(errs) :
                 errs[i] # "" /\ \A j \in 1..(i - 1) : errs[j] = ""]

\* Validation and argument extraction, per item of the drawn declaration:
\* impl_interface extracts the arguments of every method, def_interface
\* those of a method with a default body and, with gen_caller, of every
\* method.
ValidationErrors ==
    LET ast == expansion.input.ast
    IN [i \in 1..Len(ast.items) |->
          LET m == ast.items[i]
          IN IF m.kind # "Fn" THEN ""
             ELSE IF SigError(m.sig) # "" THEN SigError(m.sig)
             ELSE IF expansion.macro = "impl_interface" THEN PatError(m.sig)
             ELSE IF IsSome(m.default) \/ expansion.input.arg.gen_caller
             THEN PatError(m.sig)
             ELSE ""]

\* The same, with the refusal of a default body without the weak_default
\* feature, which comes between the two.
MethodErrors ==
    LET ast == expansion.input.ast
    IN [i \in 1..Len(ast.items) |->
          LET m == ast.items[i]
          IN IF m.kind = "Fn" /\ SigError(m.sig) = ""
                /\ expansion.macro = "def_interface"
                /\ ~expansion.input.weak_default /\ IsSome(m.default)
             THEN weak_default_required_error(m)
             ELSE ValidationErrors[i]]

\* The declaration itself is one the macro takes: a trait without generic
\* parameters, an implementation of a trait for one plain type name.
DeclarationAccepted ==
    IF expansion.macro = "def_interface" THEN ~expansion.input.ast.generics
    ELSE IsSome(expansion.input.ast.trait_) /\ PlainTarget(expansion.input.ast)

\* The applications of def_interface.rs def_interface and of
\* impl_interface.rs impl_interface made so far.
CheckedOuts ==
    IF expansion.macro \in {"def_interface", "impl_interface"}
    THEN {expansion.outs[i] : i \in 1..Len(expansion.outs)}
    ELSE {}

C24_DeclarationError ==
    /\ expansion.macro = "def_interface"
    /\ expansion.input.ast.generics
    /\ SigError(expansion.input.ast.items[1].sig)
          = "methods with receiver (self) are not allowed in crate_interface"
    /\ Len(expansion.outs) >= 1
    /\ expansion.outs[1] = Err(generic_not_allowed_error)

-----------------------------------------------------------------------------
(* The weak definitions made from default bodies.                           *)

\* The weak definitions of a successful def_interface application, each
\* with the method it was made from: [method, weak].
WeakDefs(out) ==
    IF ~expansion.input.weak_default THEN {}
    ELSE {[method |-> expansion.input.ast.items[k],
           weak |-> Unwrap(out.trait.items[k].default).weak] :
             k \in {i \in 1..Len(expansion.input.ast.items) :
                      /\ expansion.input.ast.items[i].kind = "Fn"
                      /\ IsSome(expansion.input.ast.items[i].default)}}

\* The names of the methods of the drawn interface.
MethodIdents == {Methods(expansion.input.ast)[i].ident :
                    i \in 1..Len(Methods(expansion.input.ast))}

\* The two-segment paths Self::X in an expression, as the set of their X.
RECURSIVE SelfRefs(_)
SelfRefs(e) ==
    (IF e.k = "path" /\ Len(e.segs) = 2 /\ e.segs[1] = "Self"
     THEN {e.segs[2]} ELSE {})
    \cup UNION {SelfRefs(e.sub[i]) : i \in 1..Len(e.sub)}

\* The expression with every Self::X, X in names, replaced by the path
\* __self_proxy_X.
RECURSIVE WithProxies(_, _)
WithProxies(e, names_) ==
    IF e.k = "path" /\ Len(e.segs) = 2 /\ e.segs[1] = "Self" /\ e.segs[2] \in names_
    THEN Path(<<"__self_proxy_" \o e.segs[2]>>)
    ELSE [e EXCEPT !.sub = [i \in 1..Len(e.sub) |-> WithProxies(e.sub[i], names_)]]

\* C25: after def_interface rewrites a default body, no expression in the
\* emitted weak definition still refers to a method of the same interface
\* through Self: every such reference, at any nesting depth and whether in
\* call position or value position, has been replaced by a reference to
\* that method's proxy function, and each proxy calls the method's
\* synthesized symbol inside the interface's module with the proxy's own
\* parameters in order.
C25_NoSelfMethodLeft ==
    \A out \in DefOks : \A w \in WeakDefs(out) :
        /\ SelfRefs(Block(w.weak.body.stmts)) \cap MethodIdents = {}
        /\ w.weak.body.stmts = WithProxies(Unwrap(w.method.default), MethodIdents).sub
        /\ \A i \in 1..Len(w.weak.body.proxy_fns) :
              LET proxy == w.weak.body.proxy_fns[i]
              IN \E m \in MethodIdents :
                    /\ proxy.sig.ident = "__self_proxy_" \o m
                    /\ proxy.mod = "__" \o expansion.input.ast.ident \o "_mod"
                    /\ proxy.fn = Symbol(expansion.input.arg.namespace,
                                         expansion.input.ast.ident, m)
                    /\ proxy.args = [j \in 1..Len(proxy.sig.inputs) |->
                                        proxy.sig.inputs[j].name]

\* With the weak_default feature, trait WildIf { fn required(_: u32) -> u32;
\* fn twice(v: u32) -> u32 { Self::required(v) * 2 } } was expanded: the
\* weak definition of twice still calls Self::required, and has no proxy.
C25_SelfMethodLeft ==
    /\ expansion.macro = "def_interface"
    /\ expansion.input.ast = WildIf
    /\ expansion.input.weak_default
    /\ Len(expansion.outs) >= 1
    /\ expansion.outs[1].ok
    /\ LET weak == Unwrap(expansion.outs[1].val.trait.items[2].default).weak
       IN /\ weak.body.proxy_fns = <<>>
          /\ weak.body.stmts = Unwrap(WildIf.items[2].default).sub
          /\ "required" \in SelfRefs(Block(weak.body.stmts))

\* The methods the proxies of a weak definition stand for, in the order of
\* the proxies.
ProxiedMethods(weak) ==
    [i \in 1..Len(weak.body.proxy_fns) |->
        CHOOSE m \in MethodIdents \cup {""} :
           \/ weak.body.proxy_fns[i].sig.ident = "__self_proxy_" \o m
           \/ /\ m = ""
              /\ \A x \in MethodIdents :
                    weak.body.proxy_fns[i].sig.ident # "__self_proxy_" \o x]

\* C26: within one rewritten default body exactly one proxy function is
\* generated per distinct referenced sibling method, however many times
\* that method is referenced; a method that is not referenced gets no
\* proxy, and a default body with no self-references is emitted without
\* any proxy.
C26_OneProxyPerReferencedMethod ==
    \A out \in DefOks : \A w \in WeakDefs(out) :
        LET referenced == SelfRefs(Unwrap(w.method.default)) \cap MethodIdents
            proxied == ProxiedMethods(w.weak)
        IN /\ \A i, j \in 1..Len(proxied) : proxied[i] = proxied[j] => i = j
           /\ {proxied[i] : i \in 1..Len(proxied)} = referenced
           /\ SelfRefs(Unwrap(w.method.default)) = {} => w.weak.body.proxy_fns = <<>>

\* With the weak_default feature and namespace A_NS, WildIf was expanded:
\* the default body of twice refers to the sibling method required, and
\* its weak definition has no proxy function at all.
C26_ReferencedWithoutProxy ==
    /\ expansion.macro = "def_interface"
    /\ expansion.input.ast = WildIf
    /\ expansion.input.weak_default
    /\ expansion.input.arg.namespace = Some("A_NS")
    /\ Len(expansion.outs) >= 1
    /\ expansion.outs[1].ok
    /\ SelfRefs(Unwrap(WildIf.items[2].default)) \cap MethodIdents = {"required"}
    /\ Len(Unwrap(expansion.outs[1].val.trait.items[2].default).weak.body.proxy_fns) = 0

\* C29: the default-body rewriter changes nothing but references to
\* methods of the interface: a two-segment Self::X path where X is not the
\* name of a method of the interface (an associated constant, for example),
\* a path with a different number of segments, and every expression that is
\* not a path are emitted exactly as written, and no proxy is generated for
\* them.
C29_OnlyMethodReferencesRewritten ==
    \A out \in DefOks : \A w \in WeakDefs(out) :
        LET proxied == ProxiedMethods(w.weak)
            rewritten == {proxied[i] : i \in 1..Len(proxied)}
        IN /\ rewritten \subseteq SelfRefs(Unwrap(w.method.default)) \cap MethodIdents
           /\ w.weak.body.stmts = WithProxies(Unwrap(w.method.default), rewritten).sub
           /\ SelfRefs(Block(w.weak.body.stmts))
                 = SelfRefs(Unwrap(w.method.default)) \ rewritten

\* With the weak_default feature, trait MixIf was expanded: in the weak
\* definition of total, Self::LIMIT, helper::base(v) and Self::Inner::base()
\* stand as written and Self::base() is the only reference replaced, by the
\* only proxy; the weak definition of plain is its default body as written.
C29_Witness ==
    /\ expansion.macro = "def_interface"
    /\ expansion.input.ast = MixIf
    /\ expansion.input.weak_default
    /\ Len(expansion.outs) >= 1
    /\ expansion.outs[1].ok
    /\ LET total == Unwrap(expansion.outs[1].val.trait.items[3].default).weak.body
           plain == Unwrap(expansion.outs[1].val.trait.items[4].default).weak.body
           written == Unwrap(MixIf.items[3].default).sub
       IN /\ Len(total.proxy_fns) = 1
          /\ total.proxy_fns[1].sig.ident = "__self_proxy_base"
          /\ total.stmts[1] = written[1]
          /\ total.stmts[2] = written[2]
          /\ total.stmts[3] = written[3]
          /\ total.stmts[4] = Bin("+", Call(Path(<<"__self_proxy_base">>), <<>>),
                                   written[4].sub[2])
          /\ plain.proxy_fns = <<>>
          /\ plain.stmts = Unwrap(MixIf.items[4].default).sub

-----------------------------------------------------------------------------
(* crate_interface_lite: the macro_rules variant.  def_interface! emits    *)
(* the trait and an implementation of it for DefaultImpl whose methods     *)
(* call an external function declared under a link name; impl_interface!   *)
(* moves each method's body into a function exported under a name it       *)
(* builds itself; call_interface! calls the method of DefaultImpl.         *)

no_rules_expected_error == "no rules expected this token in macro call"

\* fn $fn_name:ident($($arg_name:ident: $arg_ty:ty),*) $(-> $ret_ty:ty)?
lite_fn_matches(sig) ==
    /\ ~sig.generics
    /\ \A i \in 1..Len(sig.inputs) :
          sig.inputs[i].kind = "Typed" /\ sig.inputs[i].pat = "Ident"

lite_impl_interface_single_underscore(interface, target, fns) ==
    IF \E i \in 1..Len(fns) : ~lite_fn_matches(fns[i].sig)
    THEN Err(no_rules_expected_error)
    ELSE Ok([trait |-> interface, self_ty |-> target,
             items |-> [i \in 1..Len(fns) |->
                [sig |-> fns[i].sig,
                 export |-> [export_name |-> "__" \o interface \o "_"
                                              \o fns[i].sig.ident,
                             sig |-> fns[i].sig,
                             body |-> fns[i].body],
                 call |-> [fn |-> fns[i].sig.ident,
                           args |-> [j \in 1..Len(fns[i].sig.inputs) |->
                                        fns[i].sig.inputs[j].name]]]]])

\* def_interface!($vis trait $name { fns }): the trait as written, and
\* impl $name for DefaultImpl.
lite_def_interface(vis, name, fns) ==
    IF \E i \in 1..Len(fns) : ~lite_fn_matches(fns[i])
    THEN Err(no_rules_expected_error)
    ELSE Ok([trait |-> [vis |-> vis, ident |-> name, items |-> fns],
             default_impl |->
                [trait |-> name, self_ty |-> "DefaultImpl",
                 items |-> [i \in 1..Len(fns) |->
                    [sig |-> fns[i],
                     extern |-> [link_name |-> "__" \o name \o "__"
                                                \o fns[i].ident,
                                 sig |-> fns[i]],
                     call |-> [fn |-> fns[i].ident,
                               args |-> [j \in 1..Len(fns[i].inputs) |->
                                            fns[i].inputs[j].name]]]]]])

\* impl_interface!(impl $interface for $target { fns }): every method holds
\* the exported function, which has the body, and calls it.
lite_impl_interface(interface, target, fns) ==
    IF \E i \in 1..Len(fns) : ~lite_fn_matches(fns[i].sig)
    THEN Err(no_rules_expected_error)
    ELSE Ok([trait |-> interface, self_ty |-> target,
             items |-> [i \in 1..Len(fns) |->
                [sig |-> fns[i].sig,
                 export |-> [export_name |-> "__" \o interface \o "__"
                                              \o fns[i].sig.ident,
                             sig |-> fns[i].sig,
                             body |-> fns[i].body],
                 call |-> [fn |-> fns[i].sig.ident,
                           args |-> [j \in 1..Len(fns[i].sig.inputs) |->
                                        fns[i].sig.inputs[j].name]]]]])

\* __interface_fn!([path] rest): the last two identifiers are the interface
\* and the method; every identifier before them moves, with its "::", to
\* the end of the accumulated path.
RECURSIVE interface_fn(_, _)
interface_fn(path, rest) ==
    IF Len(rest) = 2
    THEN Ok([self_ty |-> "DefaultImpl", trait_path |-> path \o <<rest[1]>>,
             fn |-> rest[2]])
    ELSE IF Len(rest) > 2
    THEN interface_fn(path \o <<Head(rest), "::">>, Tail(rest))
    ELSE Err(no_rules_expected_error)

\* call_interface!: the four rules are the two argument forms, each without
\* and with a leading "::"; the arguments follow the callee in order.
lite_call_interface(call) ==
    IF call.segments = <<>> \/ call.form \notin {"comma", "paren"}
    THEN Err(no_rules_expected_error)
    ELSE LET callee == IF call.leading_colon
                       THEN interface_fn(<<"::">>, call.segments)
                       ELSE interface_fn(<<>>, call.segments)
         IN IF callee.ok
            THEN Ok([callee |-> callee.val, args |-> call.args])
            ELSE callee

(* The crate of the test: two interfaces that both have a method foo, and  *)
(* one implementation of each.                                             *)
LiteFn(sig, body) == [sig |-> sig, body |-> body]

LiteCrates ==
    {[name |-> "lite_test",
      traits |-> {[vis |-> "", ident |-> "SimpleIf",
                   fns |-> <<Sig("foo", <<>>, "u32"),
                             Sig("sub", <<U32("a"), U32("b")>>, "u32")>>],
                  [vis |-> "pub", ident |-> "OtherIf",
                   fns |-> <<Sig("foo", <<>>, "u32"),
                             Sig("scale", <<U32("x")>>, "u32")>>]},
      impls |-> {[interface |-> "SimpleIf", target |-> "SimpleIfImpl",
                  fns |-> <<LiteFn(Sig("foo", <<>>, "u32"), <<Lit(456)>>),
                            LiteFn(Sig("sub", <<U32("a"), U32("b")>>, "u32"),
                                   <<Bin("-", Path(<<"a">>), Path(<<"b">>))>>)>>],
                 [interface |-> "OtherIf", target |-> "OtherIfImpl",
                  fns |-> <<LiteFn(Sig("foo", <<>>, "u32"), <<Lit(7)>>),
                            LiteFn(Sig("scale", <<U32("x")>>, "u32"),
                                   <<Bin("*", Path(<<"x">>), Lit(3))>>)>>]}]}

\* The ways the test writes the path of an interface of its own crate.
LitePrefixes ==
    {[leading_colon |-> FALSE, segments |-> <<>>],
     [leading_colon |-> FALSE, segments |-> <<"super">>],
     [leading_colon |-> FALSE, segments |-> <<"crate">>],
     [leading_colon |-> FALSE, segments |-> <<"lite_test">>],
     [leading_colon |-> TRUE, segments |-> <<"lite_test">>]}

InitLite ==
    /\ workspace \in LiteCrates
    /\ defs = {}
    /\ impls = {}
    /\ callsite = None
    /\ phase = "expand"
    /\ diag = ""
    /\ linked = {}
    /\ symtab = <<>>
    /\ result = None
    /\ names = NoNames
    /\ parser = NoParser
    /\ expansion = NoExpansion

LiteDefInterface ==
    /\ phase = "expand"
    /\ \E t \in workspace.traits :
          /\ ~\E d \in defs : d.trait.ident = t.ident
          /\ LET r == lite_def_interface(t.vis, t.ident, t.fns)
             IN IF r.ok
                THEN defs' = defs \cup {r.val} /\ UNCHANGED <<phase, diag>>
                ELSE phase' = "failed" /\ diag' = r.err /\ UNCHANGED defs
    /\ UNCHANGED <<workspace, impls, callsite, linked, symtab, result, names, parser, expansion>>

LiteImplInterface ==
    /\ phase = "expand"
    /\ \E im \in workspace.impls :
          /\ \E d \in defs : d.trait.ident = im.interface
          /\ ~\E x \in impls : x.trait = im.interface
          /\ LET r == lite_impl_interface(im.interface, im.target, im.fns)
             IN IF r.ok
                THEN impls' = impls \cup {r.val} /\ UNCHANGED <<phase, diag>>
                ELSE phase' = "failed" /\ diag' = r.err /\ UNCHANGED impls
    /\ UNCHANGED <<workspace, defs, callsite, linked, symtab, result, names, parser, expansion>>

\* call_interface!(...) on a method of a defined interface, or on a lone
\* identifier.
LiteCallInterface ==
    /\ phase = "expand"
    /\ callsite = None
    /\ \E d \in defs, pre \in LitePrefixes, form \in {"comma", "paren"},
          trailing \in BOOLEAN, short \in BOOLEAN :
       \E i \in 1..Len(d.trait.items) :
       \E args \in ArgLists(Len(d.trait.items[i].inputs)) :
          LET call == [leading_colon |-> pre.leading_colon,
                       segments |-> IF short THEN <<d.trait.items[i].ident>>
                                    ELSE pre.segments \o
                                         <<d.trait.ident, d.trait.items[i].ident>>,
                       args |-> [j \in 1..Len(args) |-> IntVal(args[j])],
                       form |-> form, trailing |-> trailing]
              r == lite_call_interface(call)
          IN IF r.ok
             THEN /\ callsite' = Some([call |-> call, out |-> r.val])
                  /\ UNCHANGED <<phase, diag>>
             ELSE /\ phase' = "failed"
                  /\ diag' = r.err
                  /\ UNCHANGED callsite
    /\ UNCHANGED <<workspace, defs, impls, linked, symtab, result, names, parser, expansion>>

\* The exported functions of the expanded implementations, by export name.
LiteExports(implset, link_name) ==
    {x.export : x \in {y \in UNION {SeqToSet(im.items) : im \in implset} :
                          y.export.export_name = link_name}}

\* The method of DefaultImpl the call names.
LiteCallee(defset, out) ==
    LET d == CHOOSE d \in defset :
                d.trait.ident = out.callee.trait_path[Len(out.callee.trait_path)]
    IN d.default_impl.items[CHOOSE i \in 1..Len(d.default_impl.items) :
                                d.default_impl.items[i].sig.ident = out.callee.fn]

\* The program is linked and runs its call: the method of DefaultImpl
\* passes its parameters to the external function of its link name.
LiteRun ==
    /\ phase = "expand"
    /\ IsSome(callsite)
    /\ LET out == Unwrap(callsite).out
           m == LiteCallee(defs, out)
           found == LiteExports(impls, m.extern.link_name)
       IN IF Cardinality(found) # 1
          THEN phase' = "failed" /\ diag' = "unresolved symbol" /\ UNCHANGED result
          ELSE LET ex == CHOOSE x \in found : TRUE
                   env == bind_args(m.sig.inputs, out.args)
                   passed == [j \in 1..Len(m.call.args) |-> env[m.call.args[j]]]
               IN /\ result' = Some(EvalStmts(
                         [mode |-> "linked", symtab |-> <<>>, impls |-> {},
                          proxies |-> <<>>],
                         ex.body, bind_args(ex.sig.inputs, passed), Fuel))
                  /\ phase' = "ran"
                  /\ UNCHANGED diag
    /\ UNCHANGED <<workspace, defs, impls, callsite, linked, symtab, names, parser, expansion>>

NextLite ==
    \/ LiteDefInterface
    \/ LiteImplInterface
    \/ LiteCallInterface
    \/ LiteRun

SpecLite == InitLite /\ [][NextLite]_vars

\* The value the body of the implementation's method gives for the call.
LiteExpected ==
    LET call == Unwrap(callsite).call
        n == Len(call.segments)
        im == CHOOSE im \in workspace.impls : im.interface = call.segments[n - 1]
        f == im.fns[CHOOSE i \in 1..Len(im.fns) :
                        im.fns[i].sig.ident = call.segments[n]]
    IN EvalStmts([mode |-> "linked", symtab |-> <<>>, impls |-> {},
                  proxies |-> <<>>],
                 f.body, bind_args(f.sig.inputs, call.args), Fuel)

(* C21: in the macro_rules variant def_interface! and impl_interface!      *)
(* build the same link name __{Interface}__{method} for every method, so a *)
(* call_interface! on Interface::method, under any module prefix and in    *)
(* either argument form, links once both are expanded and returns the      *)
(* value of the implementation's body.                                     *)
C21_LiteCallReachesImpl ==
    /\ \A d \in defs : \A im \in impls :
          d.trait.ident = im.trait =>
             \A i \in 1..Len(d.default_impl.items) :
                LET m == d.default_impl.items[i]
                IN /\ m.extern.link_name
                        = "__" \o d.trait.ident \o "__" \o m.sig.ident
                   /\ \E j \in 1..Len(im.items) :
                         /\ im.items[j].sig.ident = m.sig.ident
                         /\ im.items[j].export.export_name = m.extern.link_name
    /\ (/\ IsSome(callsite)
        /\ phase \in {"ran", "failed"}
        /\ \E im \in impls :
              im.trait = Unwrap(callsite).call.segments[
                             Len(Unwrap(callsite).call.segments) - 1])
       => /\ phase = "ran"
          /\ result = Some(LiteExpected)
          /\ LiteExpected.t = "int"

C21_Witness ==
    /\ phase = "ran"
    /\ Unwrap(callsite).call.segments = <<"super", "SimpleIf", "foo">>
    /\ Unwrap(callsite).call.form = "paren"
    /\ result = Some(IntVal(456))
====
